---- MODULE Spec2Model ----
(***************************************************************************)
(* Model of the request-processing engine of JMcomicBot:                   *)
(*   src/src/download/manager.py   DownloadManager (queue, worker, maps)   *)
(*   src/src/command/executor.py   CommandExecutor (download handlers)     *)
(*   src/src/command/parser.py     CommandParser                           *)
(*   src/src/utils/batch.py        parse_batch_params, validate_manga_ids  *)
(*   src/src/utils/helpers.py      find_manga_pdf                          *)
(*   src/src/permission/manager.py PermissionManager                       *)
(*   src/src/bot.py                MangaBot._close_resources               *)
(*   src/src/event/handler.py      EventHandler                            *)
(*                                                                         *)
(* Spec     : the download queue: handler threads running download         *)
(*            commands, the worker thread, and _close_resources.           *)
(* SpecCmd  : one batch command, as text, through execute_command and its  *)
(*            handler.                                                     *)
(* SpecPerm : check_user_permission under every configuration of lists.    *)
(* SpecDel  : one delete command under every delete-permission list.       *)
(* SpecEvt  : events through EventHandler.handle_event to the handlers.    *)
(* SpecExe  : execute_command on message texts, for every sender.          *)
(* SpecHnd  : commands one after the other, with work in the manager.      *)
(* SpecJob  : submitted jobs, the worker and delete_manga, no handler      *)
(*            threads.                                                     *)
(* SpecJobLive : SpecJob with a fairly scheduled worker thread.            *)
(* SpecTask : the worker's task step by step, with the messages and files  *)
(*            it sends, in normal and low-memory mode, and delete_manga.   *)
(* SpecUpd  : update_whitelist and check_user_permission in any order.     *)
(* SpecBoot : MangaBot() and run() (src/bot.py) on every system and        *)
(*            Python version.                                              *)
(***************************************************************************)
EXTENDS Integers, Sequences, FiniteSets, TLC

\* ------------------------------------------------------------------ bounds
\* identifiers are 1..MaxId
MaxId == 3
\* download commands accepted in one run
MaxCmds == 2
\* longest identifier list of one download command
MaxBatch == 2
\* chapters an album can have
MaxChapters == 1

Ids == 1..MaxId
Chapters == 1..MaxChapters
\* the thread of WebSocketApp.run_forever, and the one a reconnect starts
Handlers == {"h1", "h2"}

NoJob == [id |-> 0, tk |-> 0]

VARIABLES
    download_queue,      \* queue.Queue: sequence of jobs [id, tk]
    queued_tasks,        \* keys of DownloadManager.queued_tasks
    downloading_mangas,  \* keys of DownloadManager.downloading_mangas
    queue_running,       \* DownloadManager.queue_running
    downloads,           \* PDF files in MANGA_DOWNLOAD_PATH, <<album id, chapter>>
    temp,                \* chapter folders in MANGA_DOWNLOAD_PATH/temp
    wpc,                 \* position of the worker thread
    wjob,                \* the task the worker holds
    wtodo,               \* chapter folders still to convert
    wraise,              \* the last task was left by an exception
    hst,                 \* per handler thread: position and locals
    spc,                 \* position of _close_resources
    nextTk,              \* history: jobs created so far (+1)
    ncmds,               \* history: commands accepted so far
    named,               \* history: identifiers 1..named were named by commands
    before,              \* history: <<a, b>>: submit of a returned before submit of b
                         \* was called, and a still waits in the queue or has
                         \* just been taken from it
    spre,                \* history: one task was in flight and two waited when
                         \* _close_resources was called
    acl,                 \* PermissionManager: the configured lists
    cmd,                 \* the command execute_command is working on
    self_id,             \* EventHandler.self_id, <<>> while it is None
    evt,                 \* the event handle_event is working on
    boot,                \* construction and start of MangaBot
    wout                 \* what the worker has sent for the task in hand

vars == <<download_queue, queued_tasks, downloading_mangas, queue_running,
          downloads, temp, wpc, wjob, wtodo, wraise, hst, spc,
          nextTk, ncmds, named, before, spre, acl, cmd, self_id, evt, boot, wout>>

qvars == <<download_queue, queued_tasks, downloading_mangas>>
wvars == <<wpc, wjob, wtodo, wraise>>
fvars == <<downloads, temp>>
hvars == <<hst, nextTk, ncmds, named, before>>
evars == <<self_id, evt, boot, wout>>
cvars == <<acl, cmd, evars>>

\* ------------------------------------------------------------- helpers
SeqsUpTo(S, n) == UNION {[1..k -> S] : k \in 1..n}

Max(a, b) == IF a >= b THEN a ELSE b

MaxOf(s) == CHOOSE m \in {s[k] : k \in 1..Len(s)} : \A k \in 1..Len(s) : s[k] <= m

\* Identifiers are interchangeable (the code never compares two of them but
\* for equality), so a command names identifiers already named or the next
\* fresh ones, in order: lists that differ only by renaming are one case.
Canonical(ids, n) ==
    \A k \in 1..Len(ids) :
        ids[k] <= 1 + (IF k = 1 THEN n ELSE Max(n, MaxOf(SubSeq(ids, 1, k - 1))))

Tickets(q) == {q[k].tk : k \in 1..Len(q)}

IdleHandler == [pc |-> "idle", ids |-> <<>>, batch |-> FALSE, busy |-> FALSE,
                tk |-> 0, resp |-> "none"]

find_manga_pdf_exact_name(files, manga_id) == \E f \in files : f = <<manga_id>>

\* helpers.py find_manga_pdf: a file "<manga_id>-*.pdf" of the download directory
find_manga_pdf(files, manga_id) == \E f \in files : f[1] = manga_id

QueueGetNewest(q) == [item |-> q[Len(q)], rest |-> SubSeq(q, 1, Len(q) - 1)]

\* queue.Queue.get: the oldest element is returned and removed
QueueGet(q) == [item |-> Head(q), rest |-> Tail(q)]

\* queue.Queue.put: appended at the tail
QueuePut(q, job) == Append(q, job)

\* ------------------------------------------------------------ command text
\* A string is a sequence of characters and a character is named by a TLA+
\* string: "sup2" is U+00B2 SUPERSCRIPT TWO, "fwcomma" and "fwstop" are the
\* full-width comma and full stop.
DecimalDigits == {"1", "2"}
\* characters for which str.isdigit() is true and str.isdecimal() is false
OtherDigits == {"sup2"}
Letters == {"a"}
Whitespace == {" "}
Chars == DecimalDigits \cup OtherDigits \cup Letters \cup Whitespace \cup {",", "."}
\* longest argument text of a command
MaxLen == 5
AllFlag == <<"-", "-", "a", "l", "l">>
\* the sender writes an argument text over Chars or the --all directive
Messages == {<<>>} \cup SeqsUpTo(Chars, MaxLen) \cup {AllFlag}

Range(s) == {s[k] : k \in 1..Len(s)}

\* str.strip()
strip(s) ==
    LET idx == {i \in 1..Len(s) : s[i] \notin Whitespace}
    IN IF idx = {} THEN <<>>
       ELSE SubSeq(s, CHOOSE i \in idx : \A j \in idx : i <= j,
                      CHOOSE i \in idx : \A j \in idx : i >= j)

\* str.split(sep) for a one-character sep: the pieces, empty ones included
RECURSIVE split(_, _)
split(s, sep) ==
    LET idx == {i \in 1..Len(s) : s[i] = sep}
    IN IF idx = {} THEN <<s>>
       ELSE LET i == CHOOSE k \in idx : \A j \in idx : k <= j
            IN <<SubSeq(s, 1, i - 1)>> \o split(SubSeq(s, i + 1, Len(s)), sep)

\* str.split(): the pieces between runs of whitespace, none empty
split_whitespace(s) == SelectSeq(split(s, " "), LAMBDA piece : piece # <<>>)

\* str.replace(old, new) for one-character old and new
replace(s, old, new) == [i \in 1..Len(s) |-> IF s[i] = old THEN new ELSE s[i]]

\* str.isdigit(): not empty, and every character has the Unicode property
\* Numeric_Type=Digit or Decimal (so superscript digits pass)
isdigit(s) == s # <<>> /\ \A i \in 1..Len(s) : s[i] \in DecimalDigits \cup OtherDigits

\* str.startswith
startswith(s, prefix) == Len(s) >= Len(prefix) /\ SubSeq(s, 1, Len(prefix)) = prefix

\* parser.py parse lines 41-43: the text after the command word, stripped
parse(rest) == strip(rest)

NoParamCommands == {"help", "list", "version", "progress", "test_id", "test_file", "unknown"}
batch_commands == {"download", "send", "query", "delete"}

\* parser.py validate_params
validate_params(command, text) ==
    LET params == strip(text)
        spaced == replace(replace(replace(replace(params, ",", " "), ".", " "),
                                  "fwcomma", " "), "fwstop", " ")
        ids == split_whitespace(spaced)
    IN IF command \in NoParamCommands THEN params = <<>>
       ELSE IF params = <<>> THEN FALSE
       ELSE IF command \in batch_commands
            THEN IF params = AllFlag THEN TRUE
                 ELSE IF \E i \in 1..Len(params) : params[i] \in {",", ".", "fwcomma", "fwstop"}
                      THEN ids # <<>> /\ \A k \in 1..Len(ids) : isdigit(ids[k])
                      ELSE isdigit(params)
            ELSE TRUE

\* batch.py parse_batch_params; error is the ValueError raised, if any
parse_batch_params(text) ==
    LET params == strip(text)
        remaining == strip(SubSeq(params, 6, Len(params)))
        pieces == split(params, ",")
        ids == SelectSeq([k \in 1..Len(pieces) |-> strip(pieces[k])],
                         LAMBDA piece : piece # <<>>)
    IN IF params = <<>> THEN [ids |-> <<>>, use_all |-> FALSE, error |-> "none"]
       ELSE IF params = AllFlag THEN [ids |-> <<>>, use_all |-> TRUE, error |-> "none"]
       ELSE IF startswith(params, AllFlag)
            THEN IF remaining # <<>>
                 THEN [ids |-> <<>>, use_all |-> FALSE, error |-> "all_mixed"]
                 ELSE [ids |-> <<>>, use_all |-> TRUE, error |-> "none"]
       ELSE IF "," \in Range(params)
            THEN IF ids = <<>>
                 THEN [ids |-> <<>>, use_all |-> FALSE, error |-> "no_valid_id"]
                 ELSE [ids |-> ids, use_all |-> FALSE, error |-> "none"]
       ELSE IF isdigit(params)
            THEN [ids |-> <<params>>, use_all |-> FALSE, error |-> "none"]
       ELSE [ids |-> <<>>, use_all |-> FALSE, error |-> "not_an_id"]

\* batch.py validate_manga_ids: the first identifier that is not isdigit()
\* raises ValueError
validate_manga_ids(ids) ==
    IF \E k \in 1..Len(ids) : ~isdigit(ids[k])
    THEN [ids |-> <<>>, error |-> "invalid_id"]
    ELSE [ids |-> ids, error |-> "none"]

\* ------------------------------------------------------------ permissions
Users == {"u1", "u2"}
Groups == {"g1", "g2"}

Acls == [group_whitelist : SUBSET Groups, private_whitelist : SUBSET Users,
         global_blacklist : SUBSET Users, delete_permission_user : SUBSET Users]

\* config/manager.py: with nothing configured every list is empty
OpenAcl == [group_whitelist |-> {}, private_whitelist |-> {},
            global_blacklist |-> {}, delete_permission_user |-> {}]

check_user_permission_any_whitelist(a, user_id, group_id, private) ==
    IF user_id \in a.global_blacklist THEN "blacklist"
    ELSE IF a.private_whitelist # {} /\ user_id \notin a.private_whitelist
         THEN "private_whitelist"
    ELSE IF ~private /\ group_id # "none" /\ a.group_whitelist # {}
               /\ group_id \notin a.group_whitelist
         THEN "group_whitelist"
    ELSE "ok"

check_user_permission_whitelist_first(a, user_id, group_id, private) ==
    IF private /\ a.private_whitelist # {}
    THEN IF user_id \in a.private_whitelist THEN "ok" ELSE "private_whitelist"
    ELSE IF ~private /\ group_id # "none" /\ a.group_whitelist # {}
    THEN IF group_id \in a.group_whitelist THEN "ok" ELSE "group_whitelist"
    ELSE IF user_id \in a.global_blacklist THEN "blacklist" ELSE "ok"

\* permission/manager.py check_user_permission: "ok" when it returns True,
\* else the rule whose ValueError it raises; group_id None is "none"
check_user_permission(a, user_id, group_id, private) ==
    IF user_id \in a.global_blacklist THEN "blacklist"
    ELSE IF private
         THEN IF a.private_whitelist # {} /\ user_id \notin a.private_whitelist
              THEN "private_whitelist" ELSE "ok"
         ELSE IF group_id # "none" /\ a.group_whitelist # {}
                    /\ group_id \notin a.group_whitelist
              THEN "group_whitelist" ELSE "ok"

\* check_delete_permission is called at executor.py line 672 and defined
\* nowhere under src/; after the specification: the delete-permission list
\* must hold exactly one user, and the sender must be that user
check_delete_permission(a, user_id) ==
    IF a.delete_permission_user = {} THEN "not_configured"
    ELSE IF Cardinality(a.delete_permission_user) # 1 THEN "not_single"
    ELSE IF user_id \notin a.delete_permission_user THEN "not_permitted"
    ELSE "ok"

IdleCmd == [pc |-> "idle", user |-> "none", group |-> "none", private |-> TRUE,
            command |-> "none", params |-> <<>>, resp |-> "none", files |-> {},
            report |-> <<>>,
            progress |-> [downloading |-> {}, queued |-> {}, total |-> 0],
            sent |-> 0]

\* no event is being handled
\* the worker has no task in hand; low_memory_mode is off.  msgs: the
\* messages the worker handed to message_sender for the task, sends: the
\* files it handed to file_sender, pdf_files: the PDFs the task made,
\* scheduled: the files with a deletion thread
IdleTask == [low_memory_mode |-> FALSE, msgs |-> <<>>, sends |-> {}, pdf_files |-> {},
             scheduled |-> {}]

\* MangaBot constructed on a supported system, its connection made
Booted == [pc |-> "running", system |-> "Linux", version |-> <<3, 7>>, error |-> "none",
           connected |-> TRUE]

IdleEvt == [pc |-> "idle", post_type |-> "none", message_type |-> "none",
            user |-> "none", group |-> "none", raw_message |-> <<>>, message |-> <<>>]

\* ------------------------------------------------------------------ Init
\* DownloadManager.__init__ lines 40-44 and the threads at their start
Fresh ==
    /\ download_queue = <<>>
    /\ queued_tasks = {}
    /\ downloading_mangas = {}
    /\ queue_running = TRUE
    /\ temp = {}
    /\ wpc = "test"
    /\ wjob = NoJob
    /\ wtodo = {}
    /\ wraise = FALSE
    /\ hst = [h \in Handlers |-> IdleHandler]
    /\ spc = "idle"
    /\ nextTk = 1
    /\ ncmds = 0
    /\ named = 0
    /\ before = {}
    /\ spre = FALSE
    /\ self_id = <<>>
    /\ evt = IdleEvt
    /\ boot = Booted
    /\ wout = IdleTask

Init ==
    /\ Fresh
    /\ downloads = {}
    /\ acl = OpenAcl
    /\ cmd = IdleCmd

\* ------------------------------------------------- handler threads
\* Steps of a thread that touch only its own locals are joined to the step
\* before them; every read or write of the maps, the queue and the download
\* directory is a step of its own.

\* bot.py lines 154-166 (_safe_sigint_handler): when _close_resources has
\* returned, SIGINT is raised again with its default action and the process,
\* with its daemon threads, ends
Alive == spc # "returned"

\* tickets whose download_manga call has returned
Returned == {t \in 1..(nextTk - 1) :
                \A h \in Handlers : ~(hst[h].pc = "put" /\ hst[h].tk = t)}

\* the handler is done: it keeps only the last message it handed to
\* message_sender
Done(resp) == [IdleHandler EXCEPT !.resp = resp]

\* _download_single_manga lines 239-251: the look-up of the artifact and the
\* answer; when send_message raises (message/manager.py line 77) the
\* exception leaves the handler before download_manga is called
SingleLookup(st, files, sent) ==
    IF find_manga_pdf(files, Head(st.ids))
    THEN Done("already")
    ELSE IF sent THEN [st EXCEPT !.pc = "reg", !.resp = "start"]
                 ELSE Done("start")

\* _download_batch_mangas lines 271-276: an identifier with an artifact is
\* skipped, any other goes to download_manga
BatchLookup(st, files) ==
    IF find_manga_pdf(files, Head(st.ids))
    THEN IF Tail(st.ids) = <<>> THEN Done("batch_start")
                                ELSE [st EXCEPT !.ids = Tail(@), !.pc = "find"]
    ELSE [st EXCEPT !.pc = "reg"]

\* history: the identifier was in queued_tasks or downloading_mangas when
\* the handler looked it up
Busy(st) == Head(st.ids) \in (queued_tasks \cup downloading_mangas)

\* executor.py _handle_manga_download with a validated identifier list (lines
\* 225-228): one identifier goes to _download_single_manga; more go to
\* _download_batch_mangas, which announces the list (lines 262-269) and then
\* walks it
Arrive(h) ==
    /\ hst[h].pc = "idle"
    /\ spc = "idle"
    /\ ncmds < MaxCmds
    /\ \E ids \in SeqsUpTo(Ids, MaxBatch), sent \in BOOLEAN :
         /\ Canonical(ids, named)
         /\ named' = Max(named, MaxOf(ids))
         /\ LET st == [IdleHandler EXCEPT !.ids = ids, !.pc = "find",
                                       !.batch = Len(ids) > 1,
                                         !.resp = IF Len(ids) > 1 THEN "batch_start"
                                                                  ELSE "none"]
            IN  hst' = [hst EXCEPT ![h] =
                          IF Len(ids) > 1 /\ ~sent THEN Done("batch_start") ELSE st]
    /\ ncmds' = ncmds + 1
    /\ UNCHANGED <<cvars, qvars, queue_running, fvars, wvars, spc, nextTk, before, spre>>

\* the look-up of the next identifier of the command
FindPdf(h) ==
    /\ Alive
    /\ hst[h].pc = "find"
    /\ \E sent \in BOOLEAN :
         LET st == [hst[h] EXCEPT !.busy = Busy(hst[h])]
         IN  hst' = [hst EXCEPT ![h] =
                       IF st.batch THEN BatchLookup(st, downloads)
                                   ELSE SingleLookup(st, downloads, sent)]
    /\ UNCHANGED <<cvars, qvars, queue_running, fvars, wvars, spc, nextTk, ncmds, named, before, spre>>

\* download_manga line 379: the identifier is registered in queued_tasks
Register(h) ==
    /\ Alive
    /\ hst[h].pc = "reg"
    /\ queued_tasks' = queued_tasks \cup {Head(hst[h].ids)}
    /\ hst' = [hst EXCEPT ![h].pc = "put", ![h].tk = nextTk]
    /\ nextTk' = nextTk + 1
    /\ before' = before \cup {<<a, nextTk>> : a \in Returned \cap Tickets(download_queue)}
    /\ UNCHANGED <<cvars, download_queue, downloading_mangas, queue_running, fvars,
                   wvars, spc, ncmds, named, spre>>

\* download_manga line 380: the task is put on the queue; a batch goes on
\* with its next identifier
Put(h) ==
    /\ Alive
    /\ hst[h].pc = "put"
    /\ download_queue' = QueuePut(download_queue,
                                  [id |-> Head(hst[h].ids), tk |-> hst[h].tk])
    /\ hst' = [hst EXCEPT ![h] =
                 IF Tail(hst[h].ids) = <<>>
                 THEN Done(hst[h].resp)
                 ELSE [hst[h] EXCEPT !.ids = Tail(@), !.pc = "find",
                                     !.busy = FALSE, !.tk = 0]]
    /\ UNCHANGED <<cvars, queued_tasks, downloading_mangas, queue_running, fvars,
                   wvars, spc, nextTk, ncmds, named, before, spre>>

\* ---------------------------------------------------- worker thread
AfterTaskUncaught(raised) == IF raised THEN "exited" ELSE "test"

\* process_queue lines 66-74: an exception leaving _process_download_task is
\* caught and logged, and the loop goes on
AfterTask(raised) == "test"

\* _process_download_task lines 357-360: an exception of the pipeline is
\* reported with message_sender; when that raises too, the exception leaves
\* _process_download_task
Leaves(failed, reported) == failed /\ ~reported

\* process_queue line 61: the loop test
WorkerTest ==
    /\ Alive
    /\ wpc = "test"
    /\ wpc' = IF queue_running THEN "get" ELSE "exited"
    /\ UNCHANGED <<cvars, qvars, queue_running, fvars, wjob, wtodo, wraise, hvars, spc, spre>>

\* process_queue line 63: get(timeout=1) returns the oldest task
WorkerGet ==
    /\ Alive
    /\ wpc = "get"
    /\ download_queue # <<>>
    /\ wjob' = QueueGet(download_queue).item
    /\ download_queue' = QueueGet(download_queue).rest
    /\ wpc' = "unqueue"
    /\ UNCHANGED <<cvars, queued_tasks, downloading_mangas, queue_running, fvars,
                   wtodo, wraise, hvars, spc, spre>>

\* get() without a timeout: the worker waits on the empty queue
WorkerWaitsForever ==
    /\ Alive
    /\ wpc = "get"
    /\ download_queue = <<>>
    /\ UNCHANGED vars

\* process_queue lines 67-68: queue.Empty after the timeout, back to the test
WorkerTimeout ==
    /\ Alive
    /\ wpc = "get"
    /\ download_queue = <<>>
    /\ wpc' = "test"
    /\ UNCHANGED <<cvars, qvars, queue_running, fvars, wjob, wtodo, wraise, hvars, spc, spre>>

\* _process_download_task lines 264-265
WorkerUnqueue ==
    /\ Alive
    /\ wpc = "unqueue"
    /\ queued_tasks' = queued_tasks \ {wjob.id}
    /\ wraise' = FALSE
    /\ wpc' = "mark"
    /\ before' = {p \in before : p[1] \in Tickets(download_queue)}
    /\ UNCHANGED <<cvars, download_queue, downloading_mangas, queue_running, fvars,
                   wjob, wtodo, hst, nextTk, ncmds, named, spc, spre>>

\* _process_download_task lines 266-293: the identifier is marked as being
\* downloaded; create_option_by_file and download_album put chapter folders
\* "<album id>-<title>" under temp and return or raise; _find_chapter_folders
\* lists every folder of temp; with none the task reports and returns
WorkerMark ==
    /\ Alive
    /\ wpc = "mark"
    /\ downloading_mangas' = downloading_mangas \cup {wjob.id}
    /\ \E got \in SUBSET {<<wjob.id, c>> : c \in Chapters},
          raised \in BOOLEAN, sent \in BOOLEAN, reported \in BOOLEAN :
         /\ temp' = temp \cup got
         /\ IF ~raised /\ temp' # {}
            THEN wpc' = "convert" /\ wtodo' = temp' /\ wraise' = FALSE
            ELSE /\ wpc' = "finally"
                 /\ wtodo' = {}
                 /\ wraise' = Leaves(raised \/ ~sent, reported)
    /\ UNCHANGED <<cvars, download_queue, queued_tasks, queue_running, downloads,
                   wjob, hvars, spc, spre>>

\* lines 300-355 with _convert_chapter_to_pdf: one chapter folder becomes
\* "<folder name>.pdf" in the download directory, or its conversion fails
\* (None), or the import of the imaging library raises; after the last
\* folder _cleanup_chapter_folders empties temp and the result is reported
WorkerConvert ==
    /\ Alive
    /\ wpc = "convert"
    /\ \E f \in wtodo, res \in {"pdf", "none", "raise"},
          sent \in BOOLEAN, reported \in BOOLEAN :
         /\ downloads' = IF res = "pdf" THEN downloads \cup {f} ELSE downloads
         /\ IF res = "raise"
            THEN /\ wpc' = "finally"
                 /\ wtodo' = {}
                 /\ temp' = temp
                 /\ wraise' = Leaves(TRUE, reported)
            ELSE IF wtodo = {f}
                 THEN /\ wpc' = "finally"
                      /\ wtodo' = {}
                      /\ temp' = {}
                      /\ wraise' = Leaves(~sent, reported)
                 ELSE /\ wpc' = "convert"
                      /\ wtodo' = wtodo \ {f}
                      /\ temp' = temp
                      /\ wraise' = FALSE
    /\ UNCHANGED <<cvars, qvars, queue_running, wjob, hvars, spc, spre>>

\* lines 361-363: the finally block.  (When bot.py line 197 clears the map
\* between the test of line 362 and the del of line 363 a KeyError leaves
\* instead: process_queue catches it like any other, the state is the same.)
FinallyCleanupOnSuccessOnly(in_flight, manga_id, raised) ==
    IF raised THEN in_flight ELSE in_flight \ {manga_id}

FinallyCleanupNever(in_flight, manga_id, raised) == in_flight

FinallyCleanup(in_flight, manga_id, raised) == in_flight \ {manga_id}

WorkerFinally ==
    /\ Alive
    /\ wpc = "finally"
    /\ downloading_mangas' = FinallyCleanup(downloading_mangas, wjob.id, wraise)
    /\ wjob' = NoJob
    /\ wpc' = AfterTask(wraise)
    /\ UNCHANGED <<cvars, download_queue, queued_tasks, queue_running, fvars, wtodo,
                   wraise, hvars, spc, spre>>

\* ------------------------------------------------ _close_resources
\* the ticket of the task in flight, 0 without one
RunningTk == IF wjob # NoJob /\ wjob.id \in downloading_mangas THEN wjob.tk ELSE 0

\* bot.py lines 179-193: the connection is closed and queue_running is set
\* to False.  (An error of the close leaves _close_resources before the
\* queue is touched: no state changes.)
ShutdownStop ==
    /\ spc = "idle"
    /\ queue_running' = FALSE
    /\ spc' = "clear"
    /\ spre' = (RunningTk # 0 /\ Len(download_queue) = 2)
    /\ UNCHANGED <<cvars, qvars, fvars, wvars, hvars>>

\* bot.py lines 195-199: downloading_mangas is cleared
ShutdownClear ==
    /\ spc = "clear"
    /\ downloading_mangas' = {}
    /\ spc' = "join"
    /\ UNCHANGED <<cvars, download_queue, queued_tasks, queue_running, fvars, wvars,
                   hvars, spre>>

\* bot.py lines 201-204: stop_reconnect_manager joins the reconnect thread
\* for up to two seconds, then _close_resources returns
ShutdownReturn ==
    /\ spc = "join"
    /\ spc' = "returned"
    /\ UNCHANGED <<cvars, qvars, queue_running, fvars, wvars, hvars, spre>>

Next ==
    \/ \E h \in Handlers : Arrive(h)
    \/ \E h \in Handlers : FindPdf(h)
    \/ \E h \in Handlers : Register(h)
    \/ \E h \in Handlers : Put(h)
    \/ WorkerTest
    \/ WorkerGet
    \/ WorkerTimeout
    \/ WorkerUnqueue
    \/ WorkerMark
    \/ WorkerConvert
    \/ WorkerFinally
    \/ ShutdownStop
    \/ ShutdownClear
    \/ ShutdownReturn

Spec == Init /\ [][Next]_vars

\* ------------------------------------------------------------------
\* SpecCmd: one command through execute_command and its handler, on the
\* thread that received it.  The websocket is connected, so message_sender
\* and file_sender return; the worker thread is left out (nothing here waits
\* for it), and the thread _send_single_manga starts is run to its end within
\* the handler's step.

\* the batch commands a sender gives here
BatchCommands == {"download", "send", "delete"}

\* the download directory holds the PDF of album "1"
StoredFiles == {<< <<"1">>, 1 >>}

\* whitelists empty, user u1 may delete, user u2 blacklisted or not
CmdAcls == {a \in Acls : /\ a.group_whitelist = {}
                         /\ a.private_whitelist = {}
                         /\ a.global_blacklist \subseteq {"u2"}
                         /\ a.delete_permission_user = {"u1"}}

ErrorResponses == {"format_error", "denied", "delete_denied", "delete_unavailable",
                   "all_mixed", "no_valid_id",
                   "not_an_id", "invalid_id", "no_ids", "all_unsupported"}

\* the calls of message_sender a handler makes on the way to its answer
\* (executor.py: an error or an early return is one message; the single send
\* announces, then _send_manga_files answers once, or twice around the file;
\* the single delete announces and delete_manga answers; the batch send and
\* the batch delete announce and render; the rest answers once)
message_count(command, resp) ==
    IF command = "send" /\ resp = "sent" THEN 3
    ELSE IF command = "send" /\ resp \in {"downloading", "not_found", "batch_result"} THEN 2
    ELSE IF command = "delete" /\ resp \in {"deleted", "not_found", "batch_result"} THEN 2
    ELSE 1

SetToSeq(S) == CHOOSE q \in [1..Cardinality(S) -> S] : Range(q) = S

\* executor.py _get_all_downloaded_manga_ids: the part of each PDF's name
\* before the first "-"
get_all_downloaded_manga_ids(files) == SetToSeq({f[1] : f \in files})

InitCmd ==
    /\ Fresh
    /\ downloads = StoredFiles
    /\ acl \in CmdAcls
    /\ cmd = IdleCmd

\* execute_command lines 87-110: parse, validate_params (a failure is answered
\* with the usage text), check_user_permission (a denial is answered with
\* its reason)
Execute(commands, messages) ==
    /\ cmd.pc = "idle"
    /\ \E user_id \in Users, group_id \in {"none", "g1"},
          command \in commands, rest \in messages :
         LET args == parse(rest)
             private == (group_id = "none")
             c == [IdleCmd EXCEPT !.user = user_id, !.group = group_id,
                                  !.private = private, !.command = command,
                                  !.params = args]
         IN cmd' = IF ~validate_params(command, args)
                   THEN [c EXCEPT !.pc = "done", !.resp = "format_error"]
                   ELSE IF check_user_permission(acl, user_id, group_id, private) # "ok"
                   THEN [c EXCEPT !.pc = "done", !.resp = "denied"]
                   ELSE [c EXCEPT !.pc = "dispatch"]
    /\ UNCHANGED <<qvars, queue_running, fvars, wvars, hvars, spc, spre, acl, evars>>

ExecuteCommand == Execute(BatchCommands, Messages)

\* executor.py _handle_manga_download, _download_single_manga and
\* _download_batch_mangas: the last message sent and the identifiers handed
\* to download_manga
handle_manga_download_unfiltered(params, files) ==
    LET r == parse_batch_params(params)
        v == validate_manga_ids(r.ids)
    IN IF r.error # "none" THEN [resp |-> r.error, ids |-> <<>>]
       ELSE IF r.use_all THEN [resp |-> "all_unsupported", ids |-> <<>>]
       ELSE IF r.ids = <<>> THEN [resp |-> "no_ids", ids |-> <<>>]
       ELSE IF v.error # "none" THEN [resp |-> v.error, ids |-> <<>>]
       ELSE IF Len(v.ids) = 1
            THEN IF find_manga_pdf(files, v.ids[1])
                 THEN [resp |-> "already", ids |-> <<>>]
                 ELSE [resp |-> "start", ids |-> v.ids]
       ELSE [resp |-> "batch_start", ids |-> v.ids]

handle_manga_download(params, files) ==
    LET r == parse_batch_params(params)
        v == validate_manga_ids(r.ids)
    IN IF r.error # "none" THEN [resp |-> r.error, ids |-> <<>>]
       ELSE IF r.use_all THEN [resp |-> "all_unsupported", ids |-> <<>>]
       ELSE IF r.ids = <<>> THEN [resp |-> "no_ids", ids |-> <<>>]
       ELSE IF v.error # "none" THEN [resp |-> v.error, ids |-> <<>>]
       ELSE IF Len(v.ids) = 1
            THEN IF find_manga_pdf(files, v.ids[1])
                 THEN [resp |-> "already", ids |-> <<>>]
                 ELSE [resp |-> "start", ids |-> v.ids]
       ELSE [resp |-> "batch_start",
             ids |-> SelectSeq(v.ids, LAMBDA i : ~find_manga_pdf(files, i))]

\* the download handler; download_manga (manager.py lines 379-380) once for
\* each identifier it hands over
HandleMangaDownload ==
    /\ cmd.pc = "dispatch"
    /\ cmd.command = "download"
    /\ LET r == handle_manga_download(cmd.params, downloads)
           jobs == [k \in 1..Len(r.ids) |-> [id |-> r.ids[k], tk |-> nextTk + k - 1]]
       IN /\ cmd' = [cmd EXCEPT !.pc = "done", !.resp = r.resp,
                                !.sent = message_count(cmd.command, r.resp)]
          /\ download_queue' = download_queue \o jobs
          /\ queued_tasks' = queued_tasks \cup Range(r.ids)
          /\ nextTk' = nextTk + Len(r.ids)
    /\ UNCHANGED <<downloading_mangas, queue_running, fvars, wvars, hst, ncmds,
                   named, before, spc, spre, acl, evars>>

\* batch.py format_batch_response: the counts it renders and the lines of
\* its list of failures
format_batch_response(results) ==
    LET failed == SelectSeq(results, LAMBDA t : ~t.success)
    IN [total |-> Len(results),
        success |-> Cardinality({k \in 1..Len(results) : results[k].success}),
        failure |-> Len(results) - Cardinality({k \in 1..Len(results) : results[k].success}),
        items |-> [k \in 1..Len(failed) |-> [id |-> failed[k].id, detail |-> failed[k].detail]]]

send_results_unguarded(ids, files, in_flight) ==
    [k \in 1..Len(ids) |->
        IF find_manga_pdf(files, ids[k])
        THEN [id |-> ids[k], success |-> TRUE, detail |-> "sent"]
        ELSE [id |-> ids[k], success |-> FALSE, detail |-> "not_found"]]

\* executor.py _send_batch_mangas lines 355-380: the results list
send_results(ids, files, in_flight) ==
    [k \in 1..Len(ids) |->
        IF ids[k] \in in_flight
        THEN [id |-> ids[k], success |-> FALSE, detail |-> "downloading"]
        ELSE IF find_manga_pdf(files, ids[k])
        THEN [id |-> ids[k], success |-> TRUE, detail |-> "sent"]
        ELSE [id |-> ids[k], success |-> FALSE, detail |-> "not_found"]]

\* executor.py _handle_manga_send, _send_single_manga, _send_manga_files and
\* _send_batch_mangas: the last message sent and the identifiers whose PDF
\* went to file_sender
handle_manga_send(params, files, in_flight) ==
    LET r == parse_batch_params(params)
        all == get_all_downloaded_manga_ids(files)
        ids == IF r.use_all THEN all ELSE r.ids
        v == validate_manga_ids(ids)
        found == {i \in Range(v.ids) : i \notin in_flight /\ find_manga_pdf(files, i)}
    IN IF r.error # "none" THEN [resp |-> r.error, files |-> {}, report |-> <<>>]
       ELSE IF r.use_all /\ all = <<>>
       THEN [resp |-> "none_downloaded", files |-> {}, report |-> <<>>]
       ELSE IF ids = <<>> THEN [resp |-> "no_ids", files |-> {}, report |-> <<>>]
       ELSE IF v.error # "none" THEN [resp |-> v.error, files |-> {}, report |-> <<>>]
       ELSE IF Len(v.ids) = 1
            THEN [resp |-> IF v.ids[1] \in in_flight THEN "downloading"
                           ELSE IF found # {} THEN "sent" ELSE "not_found",
                  files |-> found, report |-> <<>>]
       ELSE [resp |-> "batch_result", files |-> found,
             report |-> <<format_batch_response(send_results(v.ids, files, in_flight))>>]

HandleMangaSend ==
    /\ cmd.pc = "dispatch"
    /\ cmd.command = "send"
    /\ LET r == handle_manga_send(cmd.params, downloads, downloading_mangas)
       IN cmd' = [cmd EXCEPT !.pc = "done", !.resp = r.resp, !.files = r.files,
                             !.report = r.report,
                             !.sent = message_count(cmd.command, r.resp)]
    /\ UNCHANGED <<qvars, queue_running, fvars, wvars, hvars, spc, spre, acl, evars>>

\* executor.py _delete_batch_mangas lines 750-776: the results list; a file
\* removed for one identifier is gone for the identifiers after it
RECURSIVE delete_results(_, _)
delete_results(ids, files) ==
    IF ids = <<>> THEN <<>>
    ELSE LET i == Head(ids)
         IN IF find_manga_pdf(files, i)
            THEN <<[id |-> i, success |-> TRUE, detail |-> "deleted"]>>
                 \o delete_results(Tail(ids), files \ {CHOOSE f \in files : f[1] = i})
            ELSE <<[id |-> i, success |-> FALSE, detail |-> "not_found"]>>
                 \o delete_results(Tail(ids), files)

handle_manga_delete_parse_first(a, user_id, params, files) ==
    LET r == parse_batch_params(params)
        all == get_all_downloaded_manga_ids(files)
        ids == IF r.use_all THEN all ELSE r.ids
        v == validate_manga_ids(ids)
        gone == {CHOOSE f \in files : f[1] = i :
                    i \in {j \in Range(v.ids) : find_manga_pdf(files, j)}}
        perm == check_delete_permission(a, user_id)
    IN IF r.error # "none" THEN [resp |-> r.error, removed |-> {}, report |-> <<>>]
       ELSE IF r.use_all /\ all = <<>> THEN [resp |-> "none_downloaded", removed |-> {}, report |-> <<>>]
       ELSE IF ids = <<>> THEN [resp |-> "no_ids", removed |-> {}, report |-> <<>>]
       ELSE IF v.error # "none" THEN [resp |-> v.error, removed |-> {}, report |-> <<>>]
       ELSE IF perm \in {"not_configured", "not_single"}
       THEN [resp |-> "delete_unavailable", removed |-> {}, report |-> <<>>]
       ELSE IF perm # "ok" THEN [resp |-> "delete_denied", removed |-> {}, report |-> <<>>]
       ELSE IF Len(v.ids) = 1
            THEN [resp |-> IF gone # {} THEN "deleted" ELSE "not_found", removed |-> gone,
                  report |-> <<>>]
       ELSE [resp |-> "batch_result", removed |-> gone,
             report |-> <<format_batch_response(delete_results(v.ids, files))>>]

\* executor.py _handle_manga_delete (the answers of lines 673-687 to the
\* errors of check_delete_permission), _delete_batch_mangas and manager.py
\* delete_manga: the last message sent and the files removed (for each
\* identifier the first matching file os.listdir gives)
handle_manga_delete(a, user_id, params, files) ==
    LET r == parse_batch_params(params)
        all == get_all_downloaded_manga_ids(files)
        ids == IF r.use_all THEN all ELSE r.ids
        v == validate_manga_ids(ids)
        gone == {CHOOSE f \in files : f[1] = i :
                    i \in {j \in Range(v.ids) : find_manga_pdf(files, j)}}
        perm == check_delete_permission(a, user_id)
    IN IF perm \in {"not_configured", "not_single"}
       THEN [resp |-> "delete_unavailable", removed |-> {}, report |-> <<>>]
       ELSE IF perm # "ok" THEN [resp |-> "delete_denied", removed |-> {}, report |-> <<>>]
       ELSE IF r.error # "none" THEN [resp |-> r.error, removed |-> {}, report |-> <<>>]
       ELSE IF r.use_all /\ all = <<>> THEN [resp |-> "none_downloaded", removed |-> {}, report |-> <<>>]
       ELSE IF ids = <<>> THEN [resp |-> "no_ids", removed |-> {}, report |-> <<>>]
       ELSE IF v.error # "none" THEN [resp |-> v.error, removed |-> {}, report |-> <<>>]
       ELSE IF Len(v.ids) = 1
            THEN [resp |-> IF gone # {} THEN "deleted" ELSE "not_found", removed |-> gone,
                  report |-> <<>>]
       ELSE [resp |-> "batch_result", removed |-> gone,
             report |-> <<format_batch_response(delete_results(v.ids, files))>>]

HandleMangaDelete ==
    /\ cmd.pc = "dispatch"
    /\ cmd.command = "delete"
    /\ LET r == handle_manga_delete(acl, cmd.user, cmd.params, downloads)
       IN /\ cmd' = [cmd EXCEPT !.pc = "done", !.resp = r.resp, !.report = r.report,
                                !.sent = message_count(cmd.command, r.resp)]
          /\ downloads' = downloads \ r.removed
    /\ UNCHANGED <<qvars, queue_running, temp, wvars, hvars, spc, spre, acl, evars>>

NextCmd ==
    \/ ExecuteCommand
    \/ HandleMangaDownload
    \/ HandleMangaSend
    \/ HandleMangaDelete

SpecCmd == InitCmd /\ [][NextCmd]_vars

\* ------------------------------------------------------------------
\* SpecDel: one delete command under every content of the delete-permission
\* list, with the PDFs of albums "1" and "2" in the download directory

\* longest argument text of a delete command here
MaxArg == 3
DelMessages == SeqsUpTo({"1", "2", ",", "."}, MaxArg) \cup {AllFlag}
DelFiles == {<< <<"1">>, 1 >>, << <<"2">>, 1 >>}
DelAcls == {a \in Acls : /\ a.group_whitelist = {}
                         /\ a.private_whitelist = {}
                         /\ a.global_blacklist = {}}

InitDel ==
    /\ Fresh
    /\ downloads = DelFiles
    /\ acl \in DelAcls
    /\ cmd = IdleCmd

ExecuteDelete == Execute({"delete"}, DelMessages)

NextDel ==
    \/ ExecuteDelete
    \/ HandleMangaDelete

SpecDel == InitDel /\ [][NextDel]_vars

\* ------------------------------------------------------------------
\* SpecEvt: events from the websocket through EventHandler.handle_event,
\* execute_command and the handler of the command, one after the other on the
\* thread that receives them.  The text of a message is a sequence of atoms:
\* the characters "@", " ", ",", the digits, the letter "x", and, each as one
\* atom, "[at" for the markup prefix "[CQ:at,qq=", "]" for its end, "R" for
\* one reply markup "[CQ:reply,id=<digits>]", "hi" and "HI" for the greeting
\* keyword hi in lower and upper case, "download" for the command name.

\* events handled in one behaviour
MaxEvents == 2
\* the account the bot is logged in as
BotId == <<"1">>

\* str.lower()
lower(s) == [i \in 1..Len(s) |-> IF s[i] = "HI" THEN "hi" ELSE s[i]]

\* sub in s, for a non-empty sub
contains(s, sub) ==
    \E i \in 1..(Len(s) - Len(sub) + 1) : SubSeq(s, i, i + Len(sub) - 1) = sub

\* str.replace(old, ""): the occurrences of old, found from the left and not
\* overlapping, are taken out in one pass
RECURSIVE remove(_, _)
remove(s, old) ==
    IF Len(s) < Len(old) THEN s
    ELSE IF startswith(s, old) THEN remove(SubSeq(s, Len(old) + 1, Len(s)), old)
    ELSE <<Head(s)>> \o remove(Tail(s), old)

\* handler.py line 131: re.sub(r"\[CQ:reply,id=\d+\]", "", message)
remove_reply(message) == SelectSeq(message, LAMBDA c : c # "R")

at_text(id) == <<"@">> \o id
at_markup(id) == <<"[at">> \o id \o <<"]">>

_is_at_self_unguarded(id, message) ==
    contains(message, at_text(id)) \/ contains(message, at_markup(id))

\* handler.py _is_at_self
_is_at_self(id, message) ==
    IF id = <<>> THEN FALSE
    ELSE contains(message, at_text(id)) \/ contains(message, at_markup(id))

_remove_at_mention_and_before(id, message) ==
    LET idx == {i \in 1..Len(message) :
                   \/ startswith(SubSeq(message, i, Len(message)), at_markup(id))
                   \/ startswith(SubSeq(message, i, Len(message)), at_text(id))}
        first == CHOOSE i \in idx : \A j \in idx : i <= j
    IN IF idx = {} THEN strip(message)
       ELSE strip(remove(remove(SubSeq(message, first, Len(message)), at_markup(id)),
                         at_text(id)))

\* handler.py _remove_at_mention
_remove_at_mention(id, message) ==
    strip(remove(remove(message, at_markup(id)), at_text(id)))

\* handler.py handle_event lines 51-55: the id the event carries is cached
cache_self_id(cached, carried) == IF carried # <<>> THEN carried ELSE cached

\* handler.py handle_event from line 57, _handle_message,
\* _handle_private_message and _handle_group_message: whether command_handler
\* is called, and with which text
route(a, id, post_type, message_type, user_id, group_id, raw_message) ==
    LET dropped == [forward |-> FALSE, message |-> <<>>]
        message == remove_reply(raw_message)
    IN IF post_type # "message" THEN dropped
       ELSE IF message_type = "private"
       THEN IF user_id = "none" \/ raw_message = <<>> THEN dropped
            ELSE IF check_user_permission(a, user_id, "none", TRUE) # "ok" THEN dropped
            ELSE [forward |-> TRUE, message |-> raw_message]
       ELSE IF message_type = "group"
       THEN IF group_id = "none" \/ user_id = "none" \/ raw_message = <<>> THEN dropped
            ELSE IF check_user_permission(a, user_id, group_id, FALSE) # "ok" THEN dropped
            ELSE IF ~_is_at_self(id, message) THEN dropped
            ELSE [forward |-> TRUE, message |-> _remove_at_mention(id, message)]
       ELSE dropped

\* parser.py _normalize_command: an alias or the name of a command, else a
\* greeting keyword somewhere in the word, else unknown
StandardCommands == {"help", "download", "send", "list", "query", "version",
                     "progress", "test_id", "test_file", "delete"}
welcome_keywords == {<<"hi">>}
_normalize_command(raw_command) ==
    IF Len(raw_command) = 1 /\ raw_command[1] \in StandardCommands THEN raw_command[1]
    ELSE IF \E keyword \in welcome_keywords : contains(raw_command, keyword) THEN "welcome"
    ELSE "unknown"

\* parser.py parse: the command of the first word and the text after it;
\* error when the message is blank
parse_message(message) ==
    LET text == strip(message)
        idx == {i \in 1..Len(text) : text[i] = " "}
        cut == IF idx = {} THEN Len(text) + 1 ELSE CHOOSE i \in idx : \A j \in idx : i <= j
        raw_command == lower(strip(SubSeq(text, 1, cut - 1)))
        params == strip(SubSeq(text, cut + 1, Len(text)))
    IN IF text = <<>> \/ raw_command = <<>>
       THEN [error |-> TRUE, command |-> "none", params |-> <<>>]
       ELSE [error |-> FALSE, command |-> _normalize_command(raw_command), params |-> params]

execute_command_unchecked(a, user_id, group_id, private, message) ==
    LET p == parse_message(message)
        c == [IdleCmd EXCEPT !.user = user_id, !.group = group_id,
                             !.private = private, !.command = p.command,
                             !.params = p.params]
    IN IF p.error THEN [c EXCEPT !.pc = "done", !.resp = "parse_error"]
       ELSE IF ~validate_params(p.command, p.params)
       THEN [c EXCEPT !.pc = "done", !.resp = "format_error"]
       ELSE [c EXCEPT !.pc = "dispatch"]

execute_command_permission_first(a, user_id, group_id, private, message) ==
    LET p == parse_message(message)
        c == [IdleCmd EXCEPT !.user = user_id, !.group = group_id,
                             !.private = private, !.command = p.command,
                             !.params = p.params]
    IN IF p.error THEN [c EXCEPT !.pc = "done", !.resp = "parse_error"]
       ELSE IF check_user_permission(a, user_id, group_id, private) # "ok"
       THEN [c EXCEPT !.pc = "done", !.resp = "denied"]
       ELSE IF ~validate_params(p.command, p.params)
       THEN [c EXCEPT !.pc = "done", !.resp = "format_error"]
       ELSE [c EXCEPT !.pc = "dispatch"]

\* executor.py execute_command lines 87-112 on the text of a message: the
\* command as it is handed to _dispatch_command, or the answer that ends it
execute_command(a, user_id, group_id, private, message) ==
    LET p == parse_message(message)
        c == [IdleCmd EXCEPT !.user = user_id, !.group = group_id,
                             !.private = private, !.command = p.command,
                             !.params = p.params]
    IN IF p.error THEN [c EXCEPT !.pc = "done", !.resp = "parse_error"]
       ELSE IF ~validate_params(p.command, p.params)
       THEN [c EXCEPT !.pc = "done", !.resp = "format_error"]
       ELSE IF check_user_permission(a, user_id, group_id, private) # "ok"
       THEN [c EXCEPT !.pc = "done", !.resp = "denied"]
       ELSE [c EXCEPT !.pc = "dispatch"]

\* the texts the senders write: a word or a reply markup, a mention, a
\* command word, its argument
EvtHeads == {<<>>, <<"hi", " ">>, <<"HI", " ">>, <<"x", " ">>, <<"R">>}
EvtMentions == {<<>>, at_text(BotId), at_markup(BotId), <<"@", "R">> \o BotId,
                at_text(<<"2">>)}
EvtWords == {<<>>, <<"download">>, <<"x">>}
EvtArgs == {<<>>, <<" ", "2">>, <<" ", "1", ",", "2">>}
EvtMessages == {h \o m \o s \o w \o g :
                  h \in EvtHeads, m \in EvtMentions, s \in {<<>>, <<" ">>},
                  w \in EvtWords, g \in EvtArgs}

\* the kinds of event: <<post_type, message_type>>
EvtKinds == {<<"meta_event", "none">>, <<"notice", "none">>,
             <<"message", "private">>, <<"message", "group">>,
             <<"message", "other">>}

\* user u2 blacklisted or not
EvtAcls == {a \in Acls : /\ a.group_whitelist = {}
                         /\ a.private_whitelist = {}
                         /\ a.global_blacklist \subseteq {"u2"}
                         /\ a.delete_permission_user = {}}

InitEvt ==
    /\ Fresh
    /\ downloads = {}
    /\ acl \in EvtAcls
    /\ cmd = IdleCmd

\* handle_event up to the call of command_handler
HandleEvent ==
    /\ evt.pc = "idle"
    /\ ncmds < MaxEvents
    /\ \E kind \in EvtKinds, carried \in {<<>>, BotId}, user_id \in Users \cup {"none"},
          group_id \in {"none", "g1"}, raw_message \in EvtMessages :
         LET id == cache_self_id(self_id, carried)
             r == route(acl, id, kind[1], kind[2], user_id, group_id, raw_message)
         IN /\ self_id' = id
            /\ evt' = [pc |-> IF r.forward THEN "forwarded" ELSE "dropped",
                       post_type |-> kind[1], message_type |-> kind[2],
                       user |-> user_id, group |-> group_id,
                       raw_message |-> raw_message, message |-> r.message]
    /\ ncmds' = ncmds + 1
    /\ UNCHANGED <<qvars, queue_running, fvars, wvars, hst, nextTk, named, before,
                   spc, spre, acl, cmd, boot, wout>>

\* bot.py handle_command: execute_command on the forwarded text
ExecuteForwarded ==
    /\ evt.pc = "forwarded"
    /\ cmd.pc = "idle"
    /\ cmd' = execute_command(acl, evt.user,
                              IF evt.message_type = "private" THEN "none" ELSE evt.group,
                              evt.message_type = "private", evt.message)
    /\ UNCHANGED <<qvars, queue_running, fvars, wvars, hvars, spc, spre, acl, evars>>

\* executor.py _send_welcome
SendWelcome ==
    /\ cmd.pc = "dispatch"
    /\ cmd.command = "welcome"
    /\ cmd' = [cmd EXCEPT !.pc = "done", !.resp = "welcome"]
    /\ UNCHANGED <<qvars, queue_running, fvars, wvars, hvars, spc, spre, acl, evars>>

\* executor.py _dispatch_command lines 146-150: no handler for the command
NoHandler ==
    /\ cmd.pc = "dispatch"
    /\ cmd.command = "unknown"
    /\ cmd' = [cmd EXCEPT !.pc = "done"]
    /\ UNCHANGED <<qvars, queue_running, fvars, wvars, hvars, spc, spre, acl, evars>>

\* handle_event returns
EventReturn ==
    /\ evt.pc = "dropped" \/ cmd.pc = "done"
    /\ evt' = IdleEvt
    /\ cmd' = IdleCmd
    /\ UNCHANGED <<qvars, queue_running, fvars, wvars, hvars, spc, spre, acl, self_id, boot, wout>>

NextEvt ==
    \/ HandleEvent
    \/ ExecuteForwarded
    \/ HandleMangaDownload
    \/ SendWelcome
    \/ NoHandler
    \/ EventReturn

SpecEvt == InitEvt /\ [][NextEvt]_vars

\* ------------------------------------------------------------------
\* SpecExe: execute_command called with the text of a message, for every
\* sender, blacklisted or not (bot.py handle_command without the router in
\* front of it)

\* bot.py lines 64-70: handle_command is called
CallHandleCommand ==
    /\ evt.pc = "idle"
    /\ ncmds < MaxEvents
    /\ \E user_id \in Users, group_id \in {"none", "g1"}, message \in EvtMessages :
         evt' = [IdleEvt EXCEPT !.pc = "forwarded", !.post_type = "message",
                                !.message_type = IF group_id = "none" THEN "private"
                                                 ELSE "group",
                                !.user = user_id, !.group = group_id,
                                !.message = message]
    /\ ncmds' = ncmds + 1
    /\ UNCHANGED <<qvars, queue_running, fvars, wvars, hst, nextTk, named, before,
                   spc, spre, acl, cmd, self_id, boot, wout>>

NextExe ==
    \/ CallHandleCommand
    \/ ExecuteForwarded
    \/ HandleMangaDownload
    \/ SendWelcome
    \/ NoHandler
    \/ EventReturn

SpecExe == InitEvt /\ [][NextExe]_vars

\* ------------------------------------------------------------------
\* SpecHnd: commands run one after the other by execute_command and their
\* handlers, started with work in the DownloadManager: a task in flight or
\* none, tasks waiting, PDFs in the download directory.  The worker thread
\* does not move while the commands run.

HndCommands == {"download", "send", "query", "delete", "progress"}
HndMessages == {<<>>, AllFlag} \cup SeqsUpTo({"1", "2", ","}, MaxArg)
HndIds == {<<"1">>, <<"2">>}

InitHnd ==
    /\ \E in_flight \in {S \in SUBSET HndIds : Cardinality(S) <= 1},
          queued \in SUBSET HndIds :
         LET waiting == SetToSeq(queued)
             task == CHOOSE i \in in_flight : TRUE
         IN /\ downloading_mangas = in_flight
            /\ queued_tasks = queued
            /\ download_queue = [k \in 1..Len(waiting) |-> [id |-> waiting[k], tk |-> k + 1]]
            /\ nextTk = Len(waiting) + 2
            /\ wpc = IF in_flight = {} THEN "test" ELSE "convert"
            /\ wjob = IF in_flight = {} THEN NoJob ELSE [id |-> task, tk |-> 1]
            /\ temp = {<<i, 1>> : i \in in_flight}
            /\ wtodo = {<<i, 1>> : i \in in_flight}
    /\ downloads \in SUBSET DelFiles
    /\ acl \in {a \in CmdAcls : a.global_blacklist = {}}
    /\ queue_running = TRUE
    /\ wraise = FALSE
    /\ hst = [h \in Handlers |-> IdleHandler]
    /\ spc = "idle"
    /\ ncmds = 0
    /\ named = 0
    /\ before = {}
    /\ spre = FALSE
    /\ cmd = IdleCmd
    /\ self_id = <<>>
    /\ evt = IdleEvt
    /\ boot = Booted
    /\ wout = IdleTask

ExecuteAny == Execute(HndCommands, HndMessages)

query_results_file_first(ids, files, in_flight) ==
    [k \in 1..Len(ids) |->
        IF find_manga_pdf(files, ids[k])
        THEN [id |-> ids[k], success |-> TRUE, detail |-> "downloaded"]
        ELSE IF ids[k] \in in_flight
        THEN [id |-> ids[k], success |-> FALSE, detail |-> "downloading"]
        ELSE [id |-> ids[k], success |-> FALSE, detail |-> "not_downloaded"]]

\* executor.py _query_batch_mangas lines 542-563: the results list
query_results(ids, files, in_flight) ==
    [k \in 1..Len(ids) |->
        IF ids[k] \in in_flight
        THEN [id |-> ids[k], success |-> FALSE, detail |-> "downloading"]
        ELSE IF find_manga_pdf(files, ids[k])
        THEN [id |-> ids[k], success |-> TRUE, detail |-> "downloaded"]
        ELSE [id |-> ids[k], success |-> FALSE, detail |-> "not_downloaded"]]

_query_manga_existence_all_unchecked(params, files, in_flight) ==
    LET r == parse_batch_params(params)
        all == get_all_downloaded_manga_ids(files)
        ids == IF r.use_all THEN all ELSE r.ids
        v == validate_manga_ids(ids)
    IN IF r.error # "none" THEN [resp |-> r.error, report |-> <<>>]
       ELSE IF ids = <<>> THEN [resp |-> "no_ids", report |-> <<>>]
       ELSE IF v.error # "none" THEN [resp |-> v.error, report |-> <<>>]
       ELSE IF Len(v.ids) = 1
            THEN [resp |-> IF v.ids[1] \in in_flight THEN "downloading"
                           ELSE IF find_manga_pdf(files, v.ids[1]) THEN "downloaded"
                           ELSE "not_downloaded",
                  report |-> <<>>]
       ELSE [resp |-> "batch_result",
             report |-> <<format_batch_response(query_results(v.ids, files, in_flight))>>]

\* executor.py _query_manga_existence, _query_single_manga and
\* _query_batch_mangas: the last message sent
_query_manga_existence(params, files, in_flight) ==
    LET r == parse_batch_params(params)
        all == get_all_downloaded_manga_ids(files)
        ids == IF r.use_all THEN all ELSE r.ids
        v == validate_manga_ids(ids)
    IN IF r.error # "none" THEN [resp |-> r.error, report |-> <<>>]
       ELSE IF r.use_all /\ all = <<>> THEN [resp |-> "none_downloaded", report |-> <<>>]
       ELSE IF ids = <<>> THEN [resp |-> "no_ids", report |-> <<>>]
       ELSE IF v.error # "none" THEN [resp |-> v.error, report |-> <<>>]
       ELSE IF Len(v.ids) = 1
            THEN [resp |-> IF v.ids[1] \in in_flight THEN "downloading"
                           ELSE IF find_manga_pdf(files, v.ids[1]) THEN "downloaded"
                           ELSE "not_downloaded",
                  report |-> <<>>]
       ELSE [resp |-> "batch_result",
             report |-> <<format_batch_response(query_results(v.ids, files, in_flight))>>]

QueryMangaExistence ==
    /\ cmd.pc = "dispatch"
    /\ cmd.command = "query"
    /\ LET r == _query_manga_existence(cmd.params, downloads, downloading_mangas)
       IN cmd' = [cmd EXCEPT !.pc = "done", !.resp = r.resp, !.report = r.report,
                             !.sent = message_count(cmd.command, r.resp)]
    /\ UNCHANGED <<qvars, queue_running, fvars, wvars, hvars, spc, spre, acl, evars>>

_show_download_progress_cached(in_flight, queued) ==
    [downloading |-> {}, queued |-> {}, total |-> 0]

\* executor.py _show_download_progress: the identifiers it lists and the
\* total it gives
_show_download_progress(in_flight, queued) ==
    [downloading |-> in_flight, queued |-> queued,
     total |-> Cardinality(in_flight) + Cardinality(queued)]

ShowDownloadProgress ==
    /\ cmd.pc = "dispatch"
    /\ cmd.command = "progress"
    /\ cmd' = [cmd EXCEPT !.pc = "done", !.resp = "progress", !.sent = 1,
                          !.progress = _show_download_progress(downloading_mangas,
                                                               queued_tasks)]
    /\ UNCHANGED <<qvars, queue_running, fvars, wvars, hvars, spc, spre, acl, evars>>

\* execute_command returns and the next message is taken
CommandReturn ==
    /\ cmd.pc = "done"
    /\ ncmds + 1 < MaxCmds
    /\ cmd' = IdleCmd
    /\ ncmds' = ncmds + 1
    /\ UNCHANGED <<qvars, queue_running, fvars, wvars, hst, nextTk, named, before,
                   spc, spre, acl, evars>>

NextHnd ==
    \/ ExecuteAny
    \/ HandleMangaDownload
    \/ HandleMangaSend
    \/ QueryMangaExistence
    \/ HandleMangaDelete
    \/ ShowDownloadProgress
    \/ CommandReturn

SpecHnd == InitHnd /\ [][NextHnd]_vars

\* ------------------------------------------------------------------
\* SpecJob: the worker thread with tasks handed to download_manga and PDFs
\* removed by delete_manga while it works, and _close_resources up to its wait
\* for the reconnect thread (the process stays alive, so the worker is seen to
\* the end of its loop).  The two statements of download_manga are one step
\* here; Spec has them apart.

\* tasks handed to download_manga in one behaviour
MaxJobs == 3
\* identifiers are 1..MaxJobId
MaxJobId == 2
\* calls of delete_manga in one behaviour
MaxDeletes == 1

\* manager.py download_manga lines 379-380
SubmitJob ==
    /\ spc = "idle"
    /\ nextTk <= MaxJobs
    /\ \E i \in 1..MaxJobId :
         /\ queued_tasks' = queued_tasks \cup {i}
         /\ download_queue' = QueuePut(download_queue, [id |-> i, tk |-> nextTk])
    /\ nextTk' = nextTk + 1
    /\ UNCHANGED <<cvars, downloading_mangas, queue_running, fvars, wvars, hst,
                   ncmds, named, before, spc, spre>>

\* manager.py delete_manga lines 398-420: the first file os.listdir gives
\* whose name starts with "<id>-" and ends with ".pdf" is removed
delete_manga(files, manga_id) ==
    IF \E f \in files : f[1] = manga_id
    THEN [resp |-> "deleted", removed |-> {CHOOSE f \in files : f[1] = manga_id}]
    ELSE [resp |-> "not_found", removed |-> {}]

\* executor.py _delete_single_manga calls delete_manga
DeleteManga ==
    /\ ncmds < MaxDeletes
    /\ \E i \in 1..MaxJobId :
         LET r == delete_manga(downloads, i)
         IN /\ downloads' = downloads \ r.removed
            /\ cmd' = [IdleCmd EXCEPT !.pc = "done", !.command = "delete",
                                      !.params = <<i>>, !.resp = r.resp]
    /\ ncmds' = ncmds + 1
    /\ UNCHANGED <<qvars, queue_running, temp, wvars, hst, nextTk, named, before,
                   spc, spre, acl, evars>>

NextJob ==
    \/ SubmitJob
    \/ DeleteManga
    \/ WorkerTest
    \/ WorkerGet
    \/ WorkerTimeout
    \/ WorkerUnqueue
    \/ WorkerMark
    \/ WorkerConvert
    \/ WorkerFinally
    \/ ShutdownStop
    \/ ShutdownClear

SpecJob == Init /\ [][NextJob]_vars

\* the steps of the worker thread
WorkerStep ==
    \/ WorkerTest
    \/ WorkerGet
    \/ WorkerTimeout
    \/ WorkerUnqueue
    \/ WorkerMark
    \/ WorkerConvert
    \/ WorkerFinally

\* SpecJob with a worker thread that is scheduled again and again, whose
\* get(timeout=1) returns and whose calls in _process_download_task return
SpecJobLive == SpecJob /\ WF_vars(WorkerStep)

\* ------------------------------------------------------------------
\* SpecPerm: check_user_permission applied to every caller under every
\* configuration of the three lists

PermAcls == {a \in Acls : a.delete_permission_user = {}}

InitPerm ==
    /\ Fresh
    /\ downloads = {}
    /\ acl \in PermAcls
    /\ cmd = IdleCmd

CheckPermission ==
    /\ cmd.pc = "idle"
    /\ \E user_id \in Users, group_id \in Groups \cup {"none"}, private \in BOOLEAN :
         cmd' = [IdleCmd EXCEPT !.pc = "checked", !.user = user_id, !.group = group_id,
                                !.private = private,
                                !.resp = check_user_permission(acl, user_id, group_id, private)]
    /\ UNCHANGED <<qvars, queue_running, fvars, wvars, hvars, spc, spre, acl, evars>>

NextPerm == CheckPermission

SpecPerm == InitPerm /\ [][NextPerm]_vars

\* ------------------------------------------------------------------
\* SpecTask: _process_download_task step by step, with the messages and files
\* the worker thread sends, in normal and in low-memory mode, with a
\* message_sender that does not raise

\* chapters an album of SpecTask can have
MaxTaskChapters == 2

TaskChapters == 1..MaxTaskChapters

InitTask ==
    /\ download_queue = <<>>
    /\ queued_tasks = {}
    /\ downloading_mangas = {}
    /\ queue_running = TRUE
    /\ downloads = {}
    /\ temp = {}
    /\ wpc = "test"
    /\ wjob = NoJob
    /\ wtodo = {}
    /\ wraise = FALSE
    /\ hst = [h \in Handlers |-> IdleHandler]
    /\ spc = "idle"
    /\ nextTk = 1
    /\ ncmds = 0
    /\ named = 0
    /\ before = {}
    /\ spre = FALSE
    /\ acl = OpenAcl
    /\ cmd = IdleCmd
    /\ self_id = <<>>
    /\ evt = IdleEvt
    /\ boot = Booted
    /\ \E low_memory_mode \in BOOLEAN :
         wout = [IdleTask EXCEPT !.low_memory_mode = low_memory_mode]

\* lines 266-293: the identifier is marked, download_album fetches into temp
\* or raises, _find_chapter_folders lists temp; an exception sends the
\* failure message (lines 357-360), no folder sends the message of lines
\* 285-292 and returns
TaskMark ==
    /\ wpc = "mark"
    /\ downloading_mangas' = downloading_mangas \cup {wjob.id}
    /\ \E got \in SUBSET {<<wjob.id, c>> : c \in TaskChapters}, raised \in BOOLEAN :
         /\ temp' = temp \cup got
         /\ IF raised
            THEN /\ wpc' = "finally"
                 /\ wtodo' = {}
                 /\ wout' = [wout EXCEPT !.msgs = <<"error">>, !.sends = {},
                                         !.pdf_files = {}]
            ELSE IF temp' = {}
            THEN /\ wpc' = "finally"
                 /\ wtodo' = {}
                 /\ wout' = [wout EXCEPT !.msgs = <<"no_folders">>, !.sends = {},
                                         !.pdf_files = {}]
            ELSE /\ wpc' = "convert"
                 /\ wtodo' = temp'
                 /\ wout' = [wout EXCEPT !.msgs = <<>>, !.sends = {}, !.pdf_files = {}]
    /\ wraise' = FALSE
    /\ UNCHANGED <<acl, cmd, self_id, evt, boot, download_queue, queued_tasks,
                   queue_running, downloads, wjob, hvars, spc, spre>>

\* lines 300-310: one chapter folder is converted and its PDF moved to the
\* download directory, or the conversion gives None, or it raises and the
\* failure message is sent (lines 357-360); after the last folder
\* _cleanup_chapter_folders empties temp
TaskConvert ==
    /\ wpc = "convert"
    /\ \E f \in wtodo, res \in {"pdf", "none", "raise"} :
         /\ downloads' = IF res = "pdf" THEN downloads \cup {f} ELSE downloads
         /\ IF res = "raise"
            THEN /\ wout' = [wout EXCEPT !.msgs = Append(@, "error")]
                 /\ wtodo' = {}
                 /\ wpc' = "finally"
                 /\ temp' = temp
            ELSE /\ wout' = [wout EXCEPT !.pdf_files = IF res = "pdf" THEN @ \cup {f}
                                                       ELSE @]
                 /\ wtodo' = wtodo \ {f}
                 /\ IF wtodo = {f}
                    THEN wpc' = "report" /\ temp' = {}
                    ELSE wpc' = "convert" /\ temp' = temp
    /\ UNCHANGED <<acl, cmd, self_id, evt, boot, qvars, queue_running, wjob, wraise,
                   hvars, spc, spre>>

\* lines 313-354: the response is built; in low-memory mode with a
\* file_sender it is sent at once (line 325) and the files follow
TaskReport ==
    /\ wpc = "report"
    /\ IF wout.pdf_files # {} /\ wout.low_memory_mode
       THEN /\ wout' = [wout EXCEPT !.msgs = Append(@, "done")]
            /\ wtodo' = wout.pdf_files
            /\ wpc' = "send"
       ELSE /\ wout' = wout
            /\ wtodo' = {}
            /\ wpc' = "final"
    /\ UNCHANGED <<acl, cmd, self_id, evt, boot, qvars, queue_running, fvars, wjob,
                   wraise, hvars, spc, spre>>

\* lines 328-339: the worker hands each PDF to file_sender (send_file sends
\* and sleeps one second, or raises, which is caught), then starts a
\* deletion thread for each
TaskSendFile ==
    /\ wpc = "send"
    /\ \E f \in wtodo :
         /\ wtodo' = wtodo \ {f}
         /\ wout' = [wout EXCEPT !.sends = @ \cup {f},
                                 !.scheduled = IF wtodo = {f}
                                               THEN @ \cup wout.pdf_files ELSE @]
         /\ wpc' = IF wtodo = {f} THEN "final" ELSE "send"
    /\ UNCHANGED <<acl, cmd, self_id, evt, boot, qvars, queue_running, fvars, wjob,
                   wraise, hvars, spc, spre>>

\* line 355: message_sender(user_id, response, ...) at the end of the try
\* block, on every path that reaches it
TaskFinalMessage ==
    /\ wpc = "final"
    /\ wout' = [wout EXCEPT !.msgs = Append(@, IF wout.pdf_files # {} THEN "done"
                                                ELSE "all_failed")]
    /\ wpc' = "finally"
    /\ UNCHANGED <<acl, cmd, self_id, evt, boot, qvars, queue_running, fvars, wjob,
                   wtodo, wraise, hvars, spc, spre>>

\* _schedule_file_deletion lines 114-123: the deletion thread of a file
\* wakes up and removes it
DeleteAfterDelay ==
    /\ \E f \in wout.scheduled :
         /\ downloads' = downloads \ {f}
         /\ wout' = [wout EXCEPT !.scheduled = @ \ {f}]
    /\ UNCHANGED <<acl, cmd, self_id, evt, boot, qvars, queue_running, temp, wvars,
                   hvars, spc, spre>>

NextTask ==
    \/ SubmitJob
    \/ WorkerTest
    \/ WorkerGet
    \/ WorkerTimeout
    \/ WorkerUnqueue
    \/ TaskMark
    \/ TaskConvert
    \/ TaskReport
    \/ TaskSendFile
    \/ TaskFinalMessage
    \/ WorkerFinally
    \/ DeleteAfterDelay
    \/ DeleteManga

SpecTask == InitTask /\ [][NextTask]_vars

\* ------------------------------------------------------------------
\* SpecUpd: update_whitelist and check_user_permission called in any order,
\* starting from empty lists

\* an argument of update_whitelist: None, or a list
NoneArg == [given |-> FALSE, value |-> {}]
ListArgs(S) == {NoneArg} \cup {[given |-> TRUE, value |-> v] : v \in SUBSET S}

update_whitelist_all(a, group_whitelist, private_whitelist, global_blacklist) ==
    [a EXCEPT !.group_whitelist = group_whitelist.value,
              !.private_whitelist = private_whitelist.value,
              !.global_blacklist = global_blacklist.value]

\* permission/manager.py update_whitelist
update_whitelist(a, group_whitelist, private_whitelist, global_blacklist) ==
    [a EXCEPT !.group_whitelist = IF group_whitelist.given THEN group_whitelist.value
                                  ELSE @,
              !.private_whitelist = IF private_whitelist.given THEN private_whitelist.value
                                    ELSE @,
              !.global_blacklist = IF global_blacklist.given THEN global_blacklist.value
                                   ELSE @]

UpdateWhitelist ==
    /\ cmd.pc = "idle"
    /\ \E g \in ListArgs(Groups), p \in ListArgs(Users), b \in ListArgs(Users) :
         /\ acl' = update_whitelist(acl, g, p, b)
         /\ cmd' = [IdleCmd EXCEPT !.pc = "updated", !.params = <<g, p, b>>]
    /\ UNCHANGED <<qvars, queue_running, fvars, wvars, hvars, spc, spre, evars>>

\* the call returns
PermReturn ==
    /\ cmd.pc \in {"updated", "checked"}
    /\ cmd' = IdleCmd
    /\ UNCHANGED <<qvars, queue_running, fvars, wvars, hvars, spc, spre, acl, evars>>

NextUpd ==
    \/ UpdateWhitelist
    \/ CheckPermission
    \/ PermReturn

SpecUpd == Init /\ [][NextUpd]_vars

\* ------------------------------------------------------------------
\* SpecBoot: MangaBot() and run() on every system and Python version

\* newest minor version of Python 3 constructed on
MaxMinor == 9

\* values of platform.system()
Systems == {"Linux", "Windows", "Darwin", "Java", "FreeBSD", ""}
\* sys.version_info, its first two components
Versions == {<<2, 7>>} \cup {<<3, n>> : n \in 4..MaxMinor}

\* str.lower on the names of Systems
lower_system(s) ==
    CASE s = "Linux" -> "linux"
      [] s = "Windows" -> "windows"
      [] s = "Darwin" -> "darwin"
      [] s = "Java" -> "java"
      [] s = "FreeBSD" -> "freebsd"
      [] OTHER -> s

supported_platforms == {"linux", "windows"}
MIN_PYTHON_VERSION == <<3, 7>>

\* comparison of tuples: sys.version_info < (3, 7)
tuple_less(a, b) == a[1] < b[1] \/ (a[1] = b[1] /\ a[2] < b[2])

_check_platform_compatibility_system_only(system, version) ==
    IF lower_system(system) \notin supported_platforms THEN "OSError" ELSE "none"

\* _check_platform_compatibility: the exception it raises, "none" when it returns
_check_platform_compatibility(system, version) ==
    IF lower_system(system) \notin supported_platforms THEN "OSError"
    ELSE IF tuple_less(version, MIN_PYTHON_VERSION) THEN "RuntimeError"
    ELSE "none"

InitBoot ==
    /\ download_queue = <<>>
    /\ queued_tasks = {}
    /\ downloading_mangas = {}
    /\ queue_running = FALSE
    /\ downloads = {}
    /\ temp = {}
    /\ wpc = "unstarted"
    /\ wjob = NoJob
    /\ wtodo = {}
    /\ wraise = FALSE
    /\ hst = [h \in Handlers |-> IdleHandler]
    /\ spc = "idle"
    /\ nextTk = 1
    /\ ncmds = 0
    /\ named = 0
    /\ before = {}
    /\ spre = FALSE
    /\ acl = OpenAcl
    /\ cmd = IdleCmd
    /\ self_id = <<>>
    /\ evt = IdleEvt
    /\ wout = IdleTask
    /\ \E system \in Systems, version \in Versions :
         boot = [pc |-> "new", system |-> system, version |-> version, error |-> "none",
                 connected |-> FALSE]

\* MangaBot.__init__ up to the return of _check_platform_compatibility
CheckPlatform ==
    /\ boot.pc = "new"
    /\ LET e == _check_platform_compatibility(boot.system, boot.version)
       IN boot' = [boot EXCEPT !.pc = IF e = "none" THEN "checked" ELSE "failed",
                               !.error = e]
    /\ UNCHANGED <<qvars, queue_running, fvars, wvars, hvars, spc, spre, acl, cmd,
                   self_id, evt, wout>>

\* the rest of MangaBot.__init__: the queue, its flag and its worker thread
Construct ==
    /\ boot.pc = "checked"
    /\ queue_running' = TRUE
    /\ wpc' = "test"
    /\ boot' = [boot EXCEPT !.pc = "built"]
    /\ UNCHANGED <<qvars, fvars, wjob, wtodo, wraise, hvars, spc, spre, acl, cmd,
                   self_id, evt, wout>>

\* MangaBot.run: connect_websocket
Connect ==
    /\ boot.pc = "built"
    /\ boot' = [boot EXCEPT !.pc = "running", !.connected = TRUE]
    /\ UNCHANGED <<qvars, queue_running, fvars, wvars, hvars, spc, spre, acl, cmd,
                   self_id, evt, wout>>

NextBoot ==
    \/ CheckPlatform
    \/ Construct
    \/ Connect
    \/ WorkerTest
    \/ WorkerTimeout

SpecBoot == InitBoot /\ [][NextBoot]_vars

\* ------------------------------------------------------------------
\* Properties of the download queue (specification Spec)

JobsFor(i) == Cardinality({k \in 1..Len(download_queue) : download_queue[k].id = i})
                 + (IF wjob.id = i THEN 1 ELSE 0)

\* C1: in every reachable state no identifier is in both queued_tasks and
\* downloading_mangas, and at most one Job per identifier exists across the
\* FIFO queue and the worker.
C1_AtMostOneJobPerId ==
    /\ queued_tasks \cap downloading_mangas = {}
    /\ \A i \in Ids : JobsFor(i) <= 1

\* C2: a download request that finds its identifier in queued_tasks or
\* downloading_mangas is answered "still processing" and appends nothing
\* to the FIFO queue.
C2_BusyRejected ==
    [][\A h \in Handlers :
         /\ (hst[h].pc = "find" /\ hst'[h] # hst[h] /\ Busy(hst[h]))
               => hst'[h].resp = "busy"
         /\ (hst[h].pc = "put" /\ hst'[h] # hst[h] /\ hst[h].busy)
               => download_queue' = download_queue]_vars

\* C3: FIFO: when the worker takes Job b from the queue, no Job a whose
\* submit returned before the submit of b was called is still waiting; so a
\* began before b.
C3_Fifo ==
    [][(wpc = "get" /\ wpc' = "unqueue")
          => \A p \in before : ~(p[2] = wjob'.tk /\ p[1] \in Tickets(download_queue))]_vars

\* the worker has taken a Job while a Job submitted after its submit returned waits
C3_Witness ==
    \E p \in before : wjob.tk = p[1] /\ wpc = "unqueue" /\ p[2] \in Tickets(download_queue)

\* C4: guaranteed cleanup: downloading_mangas holds nothing but the
\* identifier of the task the worker is processing; once a task has ended,
\* on whatever path, its identifier is gone before the next task is taken.
C4_GuaranteedCleanup ==
    downloading_mangas \subseteq (IF wpc \in {"convert", "finally"} THEN {wjob.id} ELSE {})

\* the worker is back at its loop, with running true, after a task whose
\* failure report raised too
C4_Witness ==
    wpc = "test" /\ wraise /\ queue_running /\ wjob = NoJob /\ downloading_mangas = {}

\* C5: a failing task never ends the worker: the worker thread exits only
\* when queue_running is false.
C5_WorkerSurvivesFailure == (wpc = "exited") => ~queue_running

\* the worker has taken the next task after a task that an exception left
C5_Witness == wpc = "unqueue" /\ wraise /\ queue_running

\* C6: shutdown called with one task in flight and two waiting: when it
\* returns, the task in flight has completed, the two waiting ones have not
\* started, and queued_tasks and downloading_mangas are empty.
C6_GracefulShutdown ==
    (spc = "returned" /\ spre)
       => /\ wjob = NoJob
          /\ Len(download_queue) >= 2
          /\ queued_tasks = {}
          /\ downloading_mangas = {}

\* C7: once queue_running is false the worker takes no task from the queue.
C7_NoStartAfterStop ==
    [][~queue_running => ~(wpc = "get" /\ wpc' = "unqueue")]_vars

\* C8: a download look-up that finds an artifact of the identifier answers
\* "already downloaded" (single) or skips it (batch), never goes on to
\* download_manga, and leaves queue, maps and artifacts as they are.
C8_IdempotentDownload ==
    [][\A h \in Handlers :
         (/\ hst[h].pc = "find"
          /\ hst'[h] # hst[h]
          /\ \E f \in downloads : f[1] = Head(hst[h].ids))
         => /\ hst'[h].pc \in {"idle", "find"}
            /\ ~hst[h].batch => hst'[h].resp = "already"
            /\ hst[h].batch => hst'[h].resp = "batch_start"
            /\ UNCHANGED <<download_queue, queued_tasks, downloading_mangas,
                           downloads, nextTk>>]_vars

\* a handler has answered "already downloaded"
C8_Witness == \E h \in Handlers : hst[h].resp = "already"

\* ------------------------------------------------------------------
\* Properties of command validation (specification SpecCmd)

\* the comma-separated tokens of an identifier list
ListTokens(params) ==
    SelectSeq([k \in 1..Len(split(params, ",")) |-> strip(split(params, ",")[k])],
              LAMBDA piece : piece # <<>>)

HasMalformedToken(params) ==
    /\ params # AllFlag
    /\ \E k \in 1..Len(ListTokens(params)) :
          \E c \in Range(ListTokens(params)[k]) : c \notin DecimalDigits

\* C9: batch validation is all-or-nothing: a batch command whose identifier
\* list has a token not made only of decimal digits ends with an error
\* response, no task submitted, no file sent and no file deleted.
C9_BatchAllOrNothing ==
    (cmd.pc = "done" /\ HasMalformedToken(cmd.params))
       => /\ cmd.resp \in ErrorResponses
          /\ download_queue = <<>>
          /\ queued_tasks = {}
          /\ cmd.files = {}
          /\ downloads = StoredFiles

\* ------------------------------------------------------------------
\* Properties of the permission check (specification SpecPerm)

\* C10: blacklist dominance: check_user_permission denies every user of the
\* global blacklist, in private and in group messages, whatever the
\* whitelists hold.
C10_BlacklistDominance ==
    (cmd.pc = "checked" /\ cmd.user \in acl.global_blacklist) => cmd.resp # "ok"

\* a group message of a blacklisted user who is in the private whitelist,
\* from a group of the group whitelist, was denied
C10_Witness ==
    /\ cmd.pc = "checked"
    /\ ~cmd.private
    /\ cmd.user \in acl.global_blacklist
    /\ cmd.user \in acl.private_whitelist
    /\ cmd.group \in acl.group_whitelist
    /\ cmd.resp = "blacklist"

\* the four rules of the permission reference, in their order
ReferenceAllows(a, user_id, group_id, private) ==
    ~ \/ user_id \in a.global_blacklist
      \/ private /\ a.private_whitelist # {} /\ user_id \notin a.private_whitelist
      \/ ~private /\ group_id # "none" /\ a.group_whitelist # {}
            /\ group_id \notin a.group_whitelist

\* C11: for every user, group (present or absent), channel kind and contents
\* of the three lists, check_user_permission allows exactly when the
\* four-rule reference allows.
C11_PermissionReference ==
    cmd.pc = "checked"
       => (cmd.resp = "ok" <=> ReferenceAllows(acl, cmd.user, cmd.group, cmd.private))

\* a group message of a user outside the non-empty private whitelist, with
\* an empty group whitelist, was allowed
C11_Witness ==
    /\ cmd.pc = "checked"
    /\ ~cmd.private
    /\ cmd.group # "none"
    /\ acl.group_whitelist = {}
    /\ acl.private_whitelist # {}
    /\ cmd.user \notin acl.private_whitelist
    /\ cmd.resp = "ok"

\* ------------------------------------------------------------------
\* Properties of the delete gate (specification SpecDel)

\* C12: delete gating: with zero or several entries in the delete-permission
\* list a well-formed delete command of any user (one identifier, a list or
\* --all) removes no file and is answered "delete unavailable", whatever its
\* arguments parse to; with exactly one entry only that user's command
\* removes a file.
C12_DeleteGating ==
    (cmd.pc = "done" /\ validate_params(cmd.command, cmd.params))
       => /\ Cardinality(acl.delete_permission_user) # 1
               => downloads = DelFiles /\ cmd.resp = "delete_unavailable"
          /\ downloads # DelFiles => acl.delete_permission_user = {cmd.user}

\* with two users in the list, a delete command whose argument
\* parse_batch_params refuses was answered "delete unavailable"
C12_Witness ==
    /\ cmd.pc = "done"
    /\ validate_params(cmd.command, cmd.params)
    /\ parse_batch_params(cmd.params).error # "none"
    /\ Cardinality(acl.delete_permission_user) = 2
    /\ cmd.resp = "delete_unavailable"
    /\ downloads = DelFiles

\* ------------------------------------------------------------------
\* Properties of the event router (specification SpecEvt)

\* C13: while EventHandler.self_id holds no id, no group message is handed to
\* execute_command, whatever its text contains.
C13_FailClosedMention ==
    self_id = <<>> => ~(evt.message_type = "group" /\ evt.pc = "forwarded")

\* a group message that names the bot both ways is dropped for lack of an id
C13_Witness ==
    /\ self_id = <<>>
    /\ evt.pc = "dropped"
    /\ evt.message_type = "group"
    /\ evt.user = "u1" /\ evt.group = "g1"
    /\ contains(evt.raw_message, at_text(BotId))

\* the event passes the permission gate of its channel
PassesGate(a, e) ==
    check_user_permission(a, e.user,
                          IF e.message_type = "private" THEN "none" ELSE e.group,
                          e.message_type = "private") = "ok"

\* the text names the bot by "@<id>" or by the inline markup
Mentions(id, text) ==
    id # <<>> /\ (contains(text, at_text(id)) \/ contains(text, at_markup(id)))

\* C14 as stated: an event is handed to execute_command only if it is a
\* message that passes the permission gate and is private, or is a group
\* message whose text contains "@<self id>" or the inline markup of the self
\* id; as long as no event is forwarded the queue and both maps stay as they
\* are.
C14_ForwardOnlyWhenAddressed ==
    [][/\ evt'.pc = "forwarded"
            => /\ evt'.post_type = "message"
               /\ PassesGate(acl, evt')
               /\ \/ evt'.message_type = "private"
                  \/ /\ evt'.message_type = "group"
                     /\ Mentions(self_id', evt'.raw_message)
       /\ evt.pc # "forwarded" => UNCHANGED qvars]_vars

\* What the router does guarantee: the same, with the mention looked for in
\* the text of the group message after every reply markup has been taken out
\* of it.
ForwardOnlyWhenAddressedAfterReply ==
    [][/\ evt'.pc = "forwarded"
            => /\ evt'.post_type = "message"
               /\ PassesGate(acl, evt')
               /\ \/ evt'.message_type = "private"
                  \/ /\ evt'.message_type = "group"
                     /\ Mentions(self_id', remove_reply(evt'.raw_message))
       /\ evt.pc # "forwarded" => UNCHANGED qvars]_vars

\* the group message being handled starts with this word and a space
StartsWithWord(e, word) ==
    /\ e.pc = "forwarded"
    /\ e.message_type = "group"
    /\ startswith(lower(e.raw_message), <<word, " ">>)

\* C15: taking the mention out of a group message leaves the words around it
\* in place, so the word before the mention stays the command word: a message
\* that starts with a greeting is parsed as welcome and, when text follows, is
\* answered by the welcome handler; one that starts with a word that is no
\* command and no greeting is parsed as unknown; neither submits a download,
\* whatever follows the mention.
C15_WordBeforeMentionIsCommand ==
    [][/\ (StartsWithWord(evt', "hi") /\ cmd'.pc # "idle")
            => /\ cmd'.command = "welcome"
               /\ (cmd'.pc = "done" /\ cmd'.params # <<>>) => cmd'.resp = "welcome"
       /\ (StartsWithWord(evt', "x") /\ cmd'.pc # "idle")
            => cmd'.command = "unknown"
       /\ (StartsWithWord(evt, "hi") \/ StartsWithWord(evt, "x"))
            => UNCHANGED <<qvars, nextTk>>]_vars

\* "hi @1 download 2" was answered by the welcome handler and the queue is
\* empty
C15_Witness ==
    /\ evt.pc = "forwarded"
    /\ evt.message_type = "group"
    /\ evt.raw_message = <<"hi", " ", "@", "1", " ", "download", " ", "2">>
    /\ evt.message = <<"hi", " ", " ", "download", " ", "2">>
    /\ cmd.pc = "done"
    /\ cmd.resp = "welcome"
    /\ download_queue = <<>>

\* ------------------------------------------------------------------
\* Properties of execute_command (specification SpecExe)

\* the text is empty or blank: CommandParser.parse raises
Blank(text) == \A i \in 1..Len(text) : text[i] = " "

\* C16: when parse fails on the message, validate_params is false for its
\* command and argument, or check_user_permission denies the sender,
\* execute_command ends with the error answer, no handler runs, and the queue,
\* both maps and the files in the download directory stay as they are.
C16_ErrorsStopAtBoundary ==
    [][/\ (cmd.pc = "idle" /\ cmd'.pc # "idle"
           /\ \/ Blank(evt.message)
              \/ ~validate_params(cmd'.command, cmd'.params)
              \/ check_user_permission(acl, cmd'.user, cmd'.group, cmd'.private) # "ok")
            => /\ cmd'.pc = "done"
               /\ cmd'.resp \in {"parse_error", "format_error", "denied"}
               /\ UNCHANGED <<qvars, fvars, nextTk>>
       /\ (cmd.pc = "done" /\ cmd.resp \in {"parse_error", "format_error", "denied"})
            => /\ cmd'.pc = "idle"
               /\ UNCHANGED <<qvars, fvars, nextTk>>]_vars

\* a blacklisted sender's well-formed download command was answered with the
\* denial and nothing was queued
C16_Witness ==
    /\ cmd.pc = "done"
    /\ cmd.resp = "denied"
    /\ cmd.command = "download"
    /\ cmd.params = <<"1", ",", "2">>
    /\ cmd.user \in acl.global_blacklist
    /\ download_queue = <<>> /\ queued_tasks = {}

\* ------------------------------------------------------------------
\* Properties of the command handlers (specification SpecHnd)

\* the identifiers a batch command names: the tokens of the list, or every
\* identifier that has a PDF for --all
Requested(params, files) ==
    IF params = AllFlag THEN {f[1] : f \in files}
    ELSE {t \in Range(ListTokens(params)) : t # <<>>}

\* the line of the aggregated response about identifier i, if any
Itemized(report, i) ==
    {report[1].items[k].detail : k \in {j \in 1..Len(report[1].items) :
                                           report[1].items[j].id = i}}

\* C17: a send command that reached its handler with a well-formed list hands
\* no file of an identifier in downloading_mangas to file_sender and tells the
\* sender it is being downloaded (the answer of the single path, the line of
\* the identifier in the batch answer); for any other identifier it hands over
\* the PDF if there is one and reports "not found" if there is none.
C17_SendSkipsBusy ==
    (cmd.pc = "done" /\ cmd.command = "send"
       /\ cmd.resp \in {"downloading", "sent", "not_found", "batch_result"})
      => \A i \in Requested(cmd.params, downloads) :
           LET single == cmd.resp # "batch_result"
               has == \E f \in downloads : f[1] = i
           IN /\ i \in downloading_mangas
                   => /\ i \notin cmd.files
                      /\ single => cmd.resp = "downloading"
                      /\ ~single => Itemized(cmd.report, i) = {"downloading"}
              /\ (i \notin downloading_mangas /\ has)
                   => /\ i \in cmd.files
                      /\ single => cmd.resp = "sent"
                      /\ ~single => Itemized(cmd.report, i) = {}
              /\ (i \notin downloading_mangas /\ ~has)
                   => /\ i \notin cmd.files
                      /\ single => cmd.resp = "not_found"
                      /\ ~single => Itemized(cmd.report, i) = {"not_found"}

\* a batch send of "1,2" while "1" is in flight and both PDFs exist: only the
\* PDF of "2" was sent
C17_Witness ==
    /\ cmd.pc = "done" /\ cmd.command = "send"
    /\ cmd.params = <<"1", ",", "2">>
    /\ downloading_mangas = {<<"1">>}
    /\ downloads = DelFiles
    /\ cmd.files = {<<"2">>}
    /\ Itemized(cmd.report, <<"1">>) = {"downloading"}

\* the answer the claim gives for identifier i
QueryAnswer(i, files, in_flight) ==
    IF i \in in_flight THEN "downloading"
    ELSE IF \E f \in files : f[1] = i THEN "downloaded"
    ELSE "not_downloaded"

\* C18: the step of the query handler leaves the queue, both maps and the
\* files as they are, and when it answers about identifiers, the answer for
\* each is "downloading" if it is in downloading_mangas, "downloaded" if it is
\* not and has a PDF, "not downloaded" otherwise (in the batch answer an
\* identifier counts as downloaded when it has no line in the list of
\* failures).
C18_QueryReadOnly ==
    [][(cmd.pc = "dispatch" /\ cmd.command = "query")
         => /\ UNCHANGED <<qvars, fvars, nextTk>>
            /\ cmd'.pc = "done"
            /\ cmd'.resp \in {"downloading", "downloaded", "not_downloaded"}
                 => \A i \in Requested(cmd.params, downloads) :
                       cmd'.resp = QueryAnswer(i, downloads, downloading_mangas)
            /\ cmd'.resp = "batch_result"
                 => \A i \in Requested(cmd.params, downloads) :
                       Itemized(cmd'.report, i)
                         = {QueryAnswer(i, downloads, downloading_mangas)} \ {"downloaded"}
            /\ (cmd.params = AllFlag \/ \A i \in Requested(cmd.params, downloads) : i \in HndIds)
                 => cmd'.resp \in {"downloading", "downloaded", "not_downloaded",
                                   "batch_result", "none_downloaded"}]_vars

\* a batch query of "1,2": "1" has a PDF and is in flight, "2" has no PDF
C18_Witness ==
    /\ cmd.pc = "done" /\ cmd.command = "query"
    /\ cmd.params = <<"1", ",", "2">>
    /\ downloading_mangas = {<<"1">>}
    /\ downloads = {<< <<"1">>, 1 >>}
    /\ Itemized(cmd.report, <<"1">>) = {"downloading"}
    /\ Itemized(cmd.report, <<"2">>) = {"not_downloaded"}

\* C19: the step of the progress handler lists as downloading the keys of
\* downloading_mangas and as waiting the keys of queued_tasks, as the maps are
\* at that step, gives as total the sum of the two sizes, and leaves both maps
\* (and the queue) as they are.
C19_ProgressIsLive ==
    [][(cmd.pc = "dispatch" /\ cmd.command = "progress")
         => /\ cmd'.pc = "done"
            /\ cmd'.progress.downloading = downloading_mangas
            /\ cmd'.progress.queued = queued_tasks
            /\ cmd'.progress.total
                 = Cardinality(downloading_mangas) + Cardinality(queued_tasks)
            /\ UNCHANGED qvars]_vars

\* the second command is progress, and it lists a task that the first
\* command, a download, put in the queue
C19_Witness ==
    /\ ncmds = 1
    /\ cmd.pc = "done" /\ cmd.command = "progress"
    /\ Len(download_queue) = 3
    /\ downloading_mangas = {<<"1">>}
    /\ cmd.progress.downloading = {<<"1">>}
    /\ cmd.progress.queued = {<<"1">>, <<"2">>, <<"1", "2">>}
    /\ cmd.progress.total = 4

\* the identifiers of a batch command, in the order they are worked on
BatchIds(params, files) ==
    IF params = AllFlag THEN get_all_downloaded_manga_ids(files) ELSE ListTokens(params)

\* the item at position k of the batch fails
ItemFails(command, ids, k, files, in_flight) ==
    IF command = "delete"
    THEN (~\E f \in files : f[1] = ids[k]) \/ (\E j \in 1..(k - 1) : ids[j] = ids[k])
    ELSE ids[k] \in in_flight \/ ~\E f \in files : f[1] = ids[k]

\* the identifiers of the failing items, in order
FailedIds(command, ids, files, in_flight) ==
    LET idx == SelectSeq([k \in 1..Len(ids) |-> k],
                         LAMBDA k : ItemFails(command, ids, k, files, in_flight))
    IN [m \in 1..Len(idx) |-> ids[idx[m]]]

\* the handler of one of the given commands answers one aggregated response
\* for its n > 1 identifiers: total n, successes and failures adding up to n,
\* and a list of exactly the failed identifiers
Aggregates(commands) ==
    (cmd.pc = "dispatch" /\ cmd.command \in commands
       /\ cmd'.resp \in {"batch_start", "batch_result"})
      => LET ids == BatchIds(cmd.params, downloads)
             failed == FailedIds(cmd.command, ids, downloads, downloading_mangas)
         IN /\ Len(ids) > 1
            /\ Len(cmd'.report) = 1
            /\ cmd'.report[1].total = Len(ids)
            /\ cmd'.report[1].success + cmd'.report[1].failure = Len(ids)
            /\ cmd'.report[1].failure = Len(failed)
            /\ [k \in 1..Len(cmd'.report[1].items) |-> cmd'.report[1].items[k].id] = failed

\* C20: a batch-capable command (download, send, query, delete) over n > 1
\* validated identifiers attempts every one of them and renders exactly one
\* aggregated response: total n, success count plus failure count n, and an
\* itemized list of exactly the failed identifiers.
C20_BatchAggregation == [][Aggregates(batch_commands)]_vars

\* What holds: the same for send, query and delete.
BatchAggregationWithoutDownload == [][Aggregates(batch_commands \ {"download"})]_vars

\* C21: with no PDF in the download directory, query --all, send --all and,
\* for the user who may delete, delete --all answer with the one message
\* "nothing downloaded": no item is worked on, no aggregated response is
\* rendered, no file is sent or removed, and the queue and both maps stay as
\* they are.
C21_AllOnEmptyDirectory ==
    [][(/\ cmd.pc = "dispatch"
        /\ cmd.command \in {"query", "send", "delete"}
        /\ cmd.params = AllFlag
        /\ downloads = {}
        /\ cmd.command = "delete" => acl.delete_permission_user = {cmd.user})
         => /\ cmd'.pc = "done"
            /\ cmd'.resp = "none_downloaded"
            /\ cmd'.sent = 1
            /\ cmd'.report = <<>>
            /\ cmd'.files = {}
            /\ UNCHANGED <<qvars, fvars, nextTk>>]_vars

\* query --all was answered that way
C21_Witness ==
    /\ cmd.pc = "done"
    /\ cmd.command = "query"
    /\ cmd.params = AllFlag
    /\ downloads = {}
    /\ cmd.resp = "none_downloaded"
    /\ cmd.sent = 1

\* ------------------------------------------------------------------
\* Properties of the batch argument (specification SpecCmd)

\* the tokens of an argument text split on any mixture of comma, period,
\* their full-width forms and whitespace
MixedTokens(params) ==
    split_whitespace(replace(replace(replace(replace(strip(params), ",", " "), ".", " "),
                                     "fwcomma", " "), "fwstop", " "))

\* C22: every argument text that validate_params accepts for a batch command
\* (other than --all) is resolved by parse_batch_params, with use_all false, to
\* the ordered list of its tokens between separators (comma, period, their
\* full-width forms, whitespace), and validate_manga_ids accepts that list.
C22_SeparatorMixture ==
    (cmd.pc = "dispatch" /\ cmd.command \in batch_commands /\ cmd.params # AllFlag)
      => LET r == parse_batch_params(cmd.params)
         IN /\ r.error = "none"
            /\ ~r.use_all
            /\ r.ids = MixedTokens(cmd.params)
            /\ validate_manga_ids(r.ids).error = "none"

\* What holds: the same for the texts without period and without whitespace
\* inside.
CommaListsResolve ==
    (/\ cmd.pc = "dispatch" /\ cmd.command \in batch_commands /\ cmd.params # AllFlag
     /\ Range(cmd.params) \cap {".", " ", "fwcomma", "fwstop"} = {})
      => LET r == parse_batch_params(cmd.params)
         IN /\ r.error = "none"
            /\ ~r.use_all
            /\ r.ids = MixedTokens(cmd.params)
            /\ validate_manga_ids(r.ids).error = "none"

\* ------------------------------------------------------------------
\* Properties of the worker with deletes (specification SpecJob)

\* the step is a call of delete_manga for identifier i
Deletes(i) == cmd'.pc = "done" /\ cmd'.command = "delete" /\ cmd'.params = <<i>>
              /\ ncmds' = ncmds + 1

\* C23: a delete of identifier i while i is in downloading_mangas removes no
\* file, answers "not found", and leaves queued_tasks and downloading_mangas
\* as they are, so the running task ends with every PDF it has made.
C23_DeleteInFlightIsNoOp ==
    [][\A i \in 1..MaxJobId :
         (Deletes(i) /\ i \in downloading_mangas)
           => /\ UNCHANGED <<downloads, queued_tasks, downloading_mangas>>
              /\ cmd'.resp = "not_found"]_vars

\* What holds: such a delete leaves both maps and the worker as they are, and
\* removes no file as long as the task has moved no PDF to the download
\* directory.
DeleteInFlightBeforeFirstPdf ==
    [][\A i \in 1..MaxJobId :
         (Deletes(i) /\ i \in downloading_mangas)
           => /\ UNCHANGED <<queued_tasks, downloading_mangas, download_queue, wvars, temp>>
              /\ (~\E f \in downloads : f[1] = i)
                   => UNCHANGED downloads /\ cmd'.resp = "not_found"]_vars

\* ------------------------------------------------------------------
\* Properties of the permission lists (specification SpecUpd)

\* C24: a step of check_user_permission leaves the three lists as they are
\* and is decided by the lists as they are then (so by the lists of the last
\* update); a step of update_whitelist replaces each list it was given,
\* leaves every list it was given None for, and nothing else changes a list.
C24_ListsChangeOnlyByUpdate ==
    [][/\ cmd'.pc = "checked"
            => /\ acl' = acl
               /\ cmd'.resp = "ok"
                    <=> ReferenceAllows(acl, cmd'.user, cmd'.group, cmd'.private)
       /\ cmd'.pc = "updated"
            => LET g == cmd'.params[1]
                   p == cmd'.params[2]
                   b == cmd'.params[3]
               IN /\ acl'.group_whitelist = IF g.given THEN g.value ELSE acl.group_whitelist
                  /\ acl'.private_whitelist
                       = IF p.given THEN p.value ELSE acl.private_whitelist
                  /\ acl'.global_blacklist = IF b.given THEN b.value ELSE acl.global_blacklist
                  /\ acl'.delete_permission_user = acl.delete_permission_user
       /\ acl' # acl => cmd'.pc = "updated"]_vars

\* u1 is refused by a blacklist that an update put in place, and the private
\* whitelist of an earlier update is still there
C24_Witness ==
    /\ cmd.pc = "checked"
    /\ cmd.user = "u1"
    /\ cmd.resp = "blacklist"
    /\ acl.global_blacklist = {"u1"}
    /\ acl.private_whitelist = {"u1"}
    /\ acl.group_whitelist = {}

\* ------------------------------------------------------------------
\* Properties of construction (specification SpecBoot)

UnsupportedSystem == boot.system \notin {"Linux", "Windows"}
OldPython == boot.version[1] < 3 \/ (boot.version[1] = 3 /\ boot.version[2] < 7)

\* C25: on a system other than Linux or Windows construction gets no further
\* than an OSError, on a supported system with a Python below 3.7 no further
\* than a RuntimeError, and in both cases the worker thread is never started
\* and no connection is made.
C25_StartupFailsFast ==
    /\ UnsupportedSystem
         => /\ boot.pc \in {"new", "failed"}
            /\ boot.pc = "failed" => boot.error = "OSError"
    /\ (~UnsupportedSystem /\ OldPython)
         => /\ boot.pc \in {"new", "failed"}
            /\ boot.pc = "failed" => boot.error = "RuntimeError"
    /\ (UnsupportedSystem \/ OldPython)
         => /\ wpc = "unstarted"
            /\ ~queue_running
            /\ ~boot.connected

\* construction has ended in a RuntimeError on Linux with Python 3.6, the
\* worker thread not started
C25_Witness ==
    /\ boot.pc = "failed"
    /\ wpc = "unstarted"
    /\ boot.system = "Linux"
    /\ boot.version = <<3, 6>>
    /\ boot.error = "RuntimeError"

\* ------------------------------------------------------------------
\* Properties of the pipeline (specification SpecJob)

\* the worker is inside _process_download_task
InPipeline == wpc \in {"unqueue", "mark", "convert", "finally"}

\* C26: at most one task is being processed at any time: downloading_mangas
\* never holds two identifiers, the one it holds is that of the single task
\* the worker has in hand, and outside _process_download_task the worker
\* holds no task.
C26_OnePipeline ==
    /\ Cardinality(downloading_mangas) <= 1
    /\ downloading_mangas # {} => (InPipeline /\ downloading_mangas = {wjob.id})
    /\ ~InPipeline => (wjob = NoJob \/ wpc = "exited")

\* a task is being converted while another waits in the queue
C26_Witness ==
    /\ wpc = "convert"
    /\ downloading_mangas = {wjob.id}
    /\ download_queue # <<>>
    /\ Head(download_queue).id # wjob.id

\* C27: staging is cleaned up on every failure: when the worker starts the
\* next task, temp holds no chapter folder of an earlier task, whether that
\* task succeeded, download_album raised or the conversion raised.
C27_StagingCleanedOnFailure == wpc = "unqueue" => temp = {}

\* C28: staging is job-scoped: every PDF a task moves into the download
\* directory carries the identifier of that task, whatever tasks ran, and
\* failed, before it.
C28_StagingJobScoped ==
    [][\A f \in downloads' \ downloads : f[1] = wjob.id]_vars

\* ------------------------------------------------------------------
\* Properties of the artifacts (specification Spec)

\* C29: the existence of an artifact signals completion: whenever a PDF of
\* identifier i is in the download directory, i is not in downloading_mangas
\* and the worker is not processing a task of i; and a download command that
\* looks i up while its task is in flight is never answered "already
\* downloaded".
C29_ArtifactMeansFinished ==
    [][/\ \A i \in Ids :
            find_manga_pdf(downloads', i)
               => /\ i \notin downloading_mangas'
                  /\ ~(wjob'.id = i /\ wpc' \in {"mark", "convert", "finally"})
       /\ \A h \in Handlers :
            (hst[h].pc = "find" /\ hst'[h].pc = "idle" /\ hst'[h].resp = "already")
               => Head(hst[h].ids) \notin downloading_mangas]_vars

\* ------------------------------------------------------------------
\* Termination of the worker (specification SpecJobLive)

\* C30: once queue_running is false, and every call of the task in hand
\* returning, the worker loop eventually exits; it does not wait forever on
\* an empty queue.
C30_WorkerTerminates == (~queue_running) ~> (wpc = "exited")

\* the worker has left its loop after queue_running was set to false, with
\* nothing in hand
C30_Witness ==
    /\ wpc = "exited"
    /\ ~queue_running
    /\ wjob = NoJob
    /\ download_queue = <<>>
    /\ downloads # {}

\* ------------------------------------------------------------------
\* Properties of execute_command (specification SpecExe)

\* C31: execute_command hands a command to its handler exactly when the
\* message parsed, then validate_params held, then the sender was allowed; the
\* first step that fails gives the answer: a blank message the parse error, a
\* malformed command the format error also when its sender is denied, and the
\* denial only for a well-formed command.
C31_DispatchOrder ==
    [][(cmd.pc = "idle" /\ cmd'.pc # "idle")
         => LET parsed == ~Blank(evt.message)
                valid == validate_params(cmd'.command, cmd'.params)
                allowed == ReferenceAllows(acl, cmd'.user, cmd'.group, cmd'.private)
            IN /\ cmd'.pc = "dispatch" <=> (parsed /\ valid /\ allowed)
               /\ ~parsed => cmd'.resp = "parse_error"
               /\ (parsed /\ ~valid) => cmd'.resp = "format_error"
               /\ (parsed /\ valid /\ ~allowed) => cmd'.resp = "denied"]_vars

\* a blacklisted sender's malformed download command was answered with the
\* format error
C31_Witness ==
    /\ cmd.pc = "done"
    /\ cmd.resp = "format_error"
    /\ cmd.command = "download"
    /\ cmd.params = <<>>
    /\ cmd.user \in acl.global_blacklist

\* ------------------------------------------------------------------
\* Properties of the worker's messages (specification SpecTask)

\* C32: file delivery never runs on the worker thread: in every mode the
\* worker hands no file to file_sender and is never inside a delivery.
C32_NoDeliveryOnWorker == wout.sends = {} /\ wpc # "send"

\* in normal mode the worker hands no file to file_sender
NoDeliveryOnWorkerInNormalMode ==
    ~wout.low_memory_mode => (wout.sends = {} /\ wpc # "send")

\* C36: exactly one terminal message per task: when the worker reaches the
\* end of _process_download_task it has handed exactly one message to
\* message_sender for the task, in normal and in low-memory mode.
C36_OneTerminalMessage == wpc = "finally" => Len(wout.msgs) = 1

\* in normal mode every task ends with exactly one message
OneTerminalMessageInNormalMode ==
    (wpc = "finally" /\ ~wout.low_memory_mode) => Len(wout.msgs) = 1

\* ------------------------------------------------------------------
\* Properties of the maps (specification Spec)

\* identifiers of the tasks waiting in the queue
Waiting == {download_queue[k].id : k \in 1..Len(download_queue)}

\* C33: queued_tasks mirrors the queue: every identifier with a task waiting
\* in the queue is a key of queued_tasks, so the progress report omits no
\* waiting task; and, outside the two statements of download_manga and
\* between the worker's get and its removal of the key, queued_tasks holds
\* nothing else.
C33_QueuedMirrorsFifo ==
    /\ Waiting \subseteq queued_tasks
    /\ ((\A h \in Handlers : hst[h].pc # "put") /\ wpc # "unqueue")
          => queued_tasks \subseteq Waiting

\* C34: downloading_mangas mirrors the worker: in every state, during and
\* after _close_resources too, an identifier is in downloading_mangas exactly
\* when the worker is between the marking of that identifier and the end of
\* the finally block of its task.
C34_InFlightMirrorsWorker ==
    \A i \in Ids :
        i \in downloading_mangas <=> (wjob.id = i /\ wpc \in {"convert", "finally"})

\* before _close_resources is called downloading_mangas mirrors the worker
InFlightMirrorsWorkerBeforeShutdown ==
    spc = "idle"
       => \A i \in Ids :
            i \in downloading_mangas <=> (wjob.id = i /\ wpc \in {"convert", "finally"})

\* ------------------------------------------------------------------
\* Progress of the queue (specification SpecJobLive)

\* C35: while queue_running stays true, with a fairly scheduled worker whose
\* calls return: every task put on the queue is eventually taken by the
\* worker, and every identifier in queued_tasks or downloading_mangas
\* eventually is in neither.
C35_QueueLiveness ==
    /\ \A t \in 1..MaxJobs :
         (t \in Tickets(download_queue)) ~> (~queue_running \/ wjob.tk = t)
    /\ \A i \in 1..MaxJobId :
         (i \in queued_tasks \cup downloading_mangas)
            ~> (~queue_running \/ i \notin queued_tasks \cup downloading_mangas)

\* the second task submitted has been processed to its finally block while
\* queue_running is true, and a third waits
C35_Witness ==
    /\ wjob.tk = 2
    /\ wpc = "finally"
    /\ queue_running
    /\ wjob.id \notin queued_tasks
    /\ Len(download_queue) = 1

\* ------------------------------------------------------------------
\* Answers of execute_command (specification SpecExe)

\* the sender of the command is allowed by the lists
SenderAllowed(c) == ReferenceAllows(acl, c.user, c.group, c.private)

\* C37: every command gets an answer: when execute_command ends for a
\* message that is not blank and whose sender is permitted, a response has
\* been handed to message_sender.
C37_EveryCommandAnswered ==
    [][(cmd.pc # "done" /\ cmd'.pc = "done" /\ ~Blank(evt.message) /\ SenderAllowed(cmd'))
          => cmd'.resp # "none"]_vars

\* every command of a permitted sender other than an unknown word without
\* arguments gets an answer
KnownCommandAnswered ==
    [][(cmd.pc # "done" /\ cmd'.pc = "done" /\ ~Blank(evt.message) /\ SenderAllowed(cmd')
        /\ ~(cmd'.command = "unknown" /\ cmd'.params = <<>>))
          => cmd'.resp # "none"]_vars

\* C38: every message that parse maps to the welcome command, with or
\* without text after the greeting, ends with the welcome response when its
\* sender is permitted.
C38_GreetingIsWelcomed ==
    [][(cmd.pc # "done" /\ cmd'.pc = "done" /\ cmd'.command = "welcome"
        /\ SenderAllowed(cmd'))
          => cmd'.resp = "welcome"]_vars

\* a greeting followed by text ends with the welcome response
GreetingWithTextIsWelcomed ==
    [][(cmd.pc # "done" /\ cmd'.pc = "done" /\ cmd'.command = "welcome"
        /\ cmd'.params # <<>> /\ SenderAllowed(cmd'))
          => cmd'.resp = "welcome"]_vars

\* ------------------------------------------------------------------
\* Properties of delete (specification SpecTask)

\* the step is a delete of identifier i that answers "deleted"
DeleteSucceeds(i) ==
    /\ cmd.pc = "idle"
    /\ cmd'.pc = "done"
    /\ cmd'.command = "delete"
    /\ cmd'.params = <<i>>
    /\ cmd'.resp = "deleted"

\* C39: delete removes the output of an identifier completely: after a
\* delete of i that reports success while no task of i is running, no PDF of
\* i is left in the download directory, also when the task of i made several
\* chapter files.
C39_DeleteIsComplete ==
    [][\A i \in 1..MaxJobId :
         (DeleteSucceeds(i) /\ i \notin downloading_mangas /\ wjob.id # i)
            => ~find_manga_pdf(downloads', i)]_vars

\* a delete that reports success removes exactly one file, one of i
DeleteRemovesOneFile ==
    [][\A i \in 1..MaxJobId :
         DeleteSucceeds(i)
            => \E f \in downloads : f[1] = i /\ downloads' = downloads \ {f}]_vars

\* ------------------------------------------------------------------
\* Admission of a batch download (specification SpecHnd)

\* C40: the download handler, given a validated list of n > 1 identifiers,
\* puts on the queue, after the tasks already there and in the order of the
\* list, one task for each identifier of the list that has no PDF, and none
\* for an identifier that has one; download --all puts no task on the queue.
C40_BatchAdmission ==
    [][(cmd.pc = "dispatch" /\ cmd.command = "download" /\ cmd'.pc = "done")
         => LET n == Len(download_queue)
                added == SubSeq(download_queue', n + 1, Len(download_queue'))
                ids == ListTokens(cmd.params)
            IN /\ SubSeq(download_queue', 1, n) = download_queue
               /\ \A k \in 1..(Len(added) - 1) : added[k].tk < added[k + 1].tk
               /\ cmd'.resp = "batch_start"
                    => /\ Len(ids) > 1
                       /\ [k \in 1..Len(added) |-> added[k].id]
                            = SelectSeq(ids, LAMBDA i : ~\E f \in downloads : f[1] = i)
                       /\ queued_tasks' = queued_tasks \cup {added[k].id : k \in 1..Len(added)}
               /\ cmd.params = AllFlag
                    => /\ added = <<>>
                       /\ queued_tasks' = queued_tasks]_vars

\* of the list 1,2 only 2, which has no PDF, was put on the empty queue
C40_Witness ==
    /\ cmd.pc = "done"
    /\ cmd.command = "download"
    /\ cmd.resp = "batch_start"
    /\ cmd.params = <<"1", ",", "2">>
    /\ downloads = {<< <<"1">>, 1 >>}
    /\ Len(download_queue) = 1
    /\ download_queue[1].id = <<"2">>
    /\ queued_tasks = {<<"2">>}

====
